---- MODULE Spec2Model ----
(***************************************************************************)
(* Model of the multi-provider dispatch and cancellation core of           *)
(* poprawiacz-tekstu-rs (src/src/app.rs): the session counter, the four    *)
(* cancel flags, the four result panels, the provider tasks spawned by     *)
(* process_with_apis and the relay loop that applies their results.        *)
(*                                                                         *)
(* Threads: the GTK main loop runs every handler (button callbacks, the    *)
(* futures spawned with glib::spawn_future_local) one at a time, so each   *)
(* handler is one atomic action up to its next await.  The provider tasks  *)
(* run on the tokio thread pool and interleave with the main loop at every *)
(* access to shared state (the cancel flag load, the channel send).        *)
(***************************************************************************)
EXTENDS Integers, Sequences, FiniteSets, TLC

\* ------------------------------------------------------------------ bounds
\* Number of dispatches (sessions) explored.
MaxSession == 2

\* A dispatch is started only while at most this many results of earlier
\* dispatches are outstanding (calls not yet returned, messages not yet relayed).
MaxStale == 1

\* Number of clicks on a cancel button explored.
MaxCancels == 1

\* ------------------------------------------------------- program constants
\* Provider indices 0..3 of API_NAMES (OpenAI, Anthropic, Gemini, DeepSeek).
NumApis == 4

Apis == 0 .. (NumApis - 1)

API_NAMES == <<"OpenAI", "Anthropic", "Gemini", "DeepSeek">>

Sessions == 1 .. MaxSession

\* ------------------------------------------------------------- ApiError
\* error.rs: enum ApiError { Connection(String), Response(String), Timeout(String) }
\* An error value is the pair of its variant and its message.
ApiError(kind, msg) == <<kind, msg>>

\* error.rs: impl Display for ApiError. A string is modelled as the tuple of
\* its parts: the variant's prefix followed by the message.
ApiErrorToString(e) ==
    CASE e[1] = "Connection" -> <<"Connection error: ", e[2]>>
      [] e[1] = "Response"   -> <<"Response error: ", e[2]>>
      [] e[1] = "Timeout"    -> <<"Timeout error: ", e[2]>>

\* Result<String, ApiError> of one provider call.
Ok(text) == [ok |-> TRUE, val |-> text]

Err(e) == [ok |-> FALSE, val |-> e]

\* The outcomes of a call that passed validation and went to the network:
\* the corrected text, or a classified error (here the timeout, whose message
\* is written without the number of seconds).
NetworkOutcomes ==
    { Ok(<<"corrected">>),
      Err(ApiError("Timeout", "Request timed out")) }

\* Mutant of CallOutcomes: the key is not validated before the network call.
CallOutcomes_NoKeyCheck(api_key) == NetworkOutcomes

\* correct_text_* : the eager validation of the API key (the model and the
\* clipboard text of a dispatch are non-empty), then the network call.
CallOutcomes(api_key) ==
    IF api_key = ""
    THEN { Err(ApiError("Response", "API key is empty")) }
    ELSE NetworkOutcomes

\* Mutant of RequestsIssued: a failed request is sent a second time.
RequestsIssued_RetriesOnError(api_key, result) ==
    IF api_key = "" THEN 0 ELSE IF result.ok THEN 1 ELSE 2

\* correct_text_*: a call that fails validation issues no HTTP request, any
\* other call issues one (client.post(..).send() is not in a loop), whatever
\* its result.
RequestsIssued(api_key, result) == IF api_key = "" THEN 0 ELSE 1

\* process_with_apis, line 872: result.map_err(|e| e.to_string())
MapErrToString(result) ==
    IF result.ok THEN result ELSE [ok |-> FALSE, val |-> ApiErrorToString(result.val)]

\* ------------------------------------------------------------- variables
VARIABLES
    session_id,       \* AppState.session_id (AtomicU64)
    cancel_flags,     \* AppState.cancel_flags ([AtomicBool; 4])
    panels,           \* AppState.panels ([PanelState; 4])
    completed_count,  \* AppState.completed_count
    status_label,     \* AppState.status_label
    config,           \* AppState.config: the API key of each provider
    tasks,            \* the provider tasks of each dispatch (tokio::spawn)
    chan,             \* the relay channel of each dispatch (async_channel)
    relay,            \* position of each dispatch's future in process_with_apis
    hotkey_wait,      \* the dispatch the hotkey loop of setup_hotkey awaits, or 0
    clicks,           \* number of cancel clicks so far
    h_cancel_all,     \* history: cancel_all_processing ran since the last prepare
    h_cancel_one,     \* history: cancel_single_api(i) ran since the last prepare
    h_ret,            \* history, current session: what held when task i returned
    h_sent,           \* history, current session: results task i sent
    h_applied,        \* history, current session: results of task i applied
    h_quiet,          \* history: the current session ran alone and uncancelled
    ad_pc,            \* position of one adapter call (correct_text_*), or "idle"
    ad_req,           \* the call's arguments
    ad_http,          \* number of HTTP requests the call has issued
    ad_read,          \* number of transport chunks read from the byte stream
    ad_buffer,        \* lines of the current transport chunk still to iterate
    ad_collected,     \* collected_text
    ad_sink,          \* the fragments passed to on_chunk, in order
    ad_body,          \* the parsed body of a batch response
    ad_result,        \* the call's return value
    ad_exit,          \* history: the place the call returned from
    ad_done,          \* history: a "data: [DONE]" frame has been read
    ad_skipped,       \* history: a frame without a text fragment was skipped
    ad_fault,         \* history: the transport failure the call has met
    cf_file,          \* the file at the configuration path
    cf_last,          \* history: the Config of the last save, if it returned Ok
    cf_loaded,        \* the return value of the last Config::load
    cf_saves,         \* number of calls of Config::save so far
    hk_pc,            \* position of the thread of setup_hotkey, or "idle"
    hk_mgr,           \* HotkeyManager: registered_hotkey and active_combo
    hk_os,            \* the combinations registered with GlobalHotKeyManager
    hk_tried,         \* history: the outcome of each registration attempt
    hk_ret,           \* the return value of HotkeyManager::new
    hk_events,        \* the queue of GlobalHotKeyEvent::receiver()
    hk_tx,            \* the tokio channel from the manager to the thread
    hk_async,         \* the async_channel from the thread to the GTK loop
    hk_pressed,       \* history: number of Pressed events of the hotkey
    hk_handled,       \* history: handle_hotkey_triggered runs of the hotkey loop
    sp_pc,            \* StreamingPanel: position in update_and_render, or "idle"
    sp_text,          \* StreamingPanel.text
    sp_chan,          \* the chunks in the channel of StreamingPanel.rx
    sp_tx,            \* the channel's sender has not been dropped
    sp_sent,          \* history: every chunk sent, in send order
    sp_before,        \* history: text when the current drain began
    sp_mark,          \* history: number of chunks received before that drain
    sd_pc,            \* SettingsDialog: "idle", "open", "validated" or "saved"
    sd,               \* SettingsDialog: its temp_* fields and validation_error
    sd_config,        \* the Config passed to save_to_config
    sd_ret,           \* the return value of the last validate or save_to_config
    dp_pc,            \* position of the GTK thread inside a dispatch, or "idle"
    dp_i,             \* the index of the loop the dispatch is in
    dp_log,           \* history: the steps of the latest dispatch, in order
    h_issue,          \* history: what held when task i of dispatch d began its call
    ss_pc,            \* a streamed response read byte chunk by byte chunk: position
    ss_body,          \* the characters of the response body
    ss_chunks,        \* the items of bytes_stream() not yet read
    ss_collected,     \* collected_text
    ss_sink,          \* the fragments passed to on_chunk, in order
    ss_result,        \* the call's return value
    h_trigger,        \* history: the triggers so far and the clipboard of the last
    cd,               \* CachedDiff: original, corrected and changes
    cd_ret,           \* the slice the last get_or_update returned
    cd_hist           \* history: the last get_or_update call and what it found

progVars == <<session_id, cancel_flags, panels, completed_count, status_label,
              config, tasks, chan, relay, hotkey_wait>>

histVars == <<clicks, h_cancel_all, h_cancel_one, h_ret, h_sent, h_applied, h_quiet>>

adapterVars == <<ad_pc, ad_req, ad_http, ad_read, ad_buffer, ad_collected,
                 ad_sink, ad_body, ad_result, ad_exit, ad_done, ad_skipped,
                 ad_fault>>

configVars == <<cf_file, cf_last, cf_loaded, cf_saves>>

\* The variables of the components that are followed on their own.
hotkeyVars == <<hk_pc, hk_mgr, hk_os, hk_tried, hk_ret, hk_events, hk_tx,
                hk_async, hk_pressed, hk_handled>>

panelVars == <<sp_pc, sp_text, sp_chan, sp_tx, sp_sent, sp_before, sp_mark>>

settingsVars == <<sd_pc, sd, sd_config, sd_ret>>

dispatchVars == <<dp_pc, dp_i, dp_log>>

taskVars == <<h_issue>>

triggerVars == <<h_trigger>>

diffVars == <<cd, cd_ret, cd_hist>>

splitVars == <<ss_pc, ss_body, ss_chunks, ss_collected, ss_sink, ss_result>>

libVars == <<configVars, hotkeyVars, panelVars, settingsVars, dispatchVars, taskVars, splitVars, triggerVars, diffVars>>

vars == <<progVars, histVars, adapterVars, libVars>>

\* ------------------------------------------------------------ initial state
\* No task: the slot of a dispatch that has not started.  requests counts the
\* HTTP requests the task's call has issued.
NoTask == [st |-> "none", api_key |-> "", requests |-> 0]

\* h_ret of a task whose call has not returned.
NoRet == [returned |-> FALSE, all |-> FALSE, one |-> FALSE, ok |-> FALSE]

\* MainWindow::build_panels: the PanelState of a new window.
InitPanel ==
    [ is_processing    |-> FALSE,
      is_completed     |-> FALSE,
      has_error        |-> FALSE,
      cancel_sensitive |-> FALSE,
      result_text      |-> <<>>,
      view             |-> <<"idle">> ]

\* config.rs, impl Default for Config: every API key is the empty string.
DefaultConfig == [i \in Apis |-> ""]

ValidKey == "sk-key"

\* The configurations explored: every provider has a key, only provider k has
\* one, or none has (Config::load accepts empty keys).
Configs ==
    { [i \in Apis |-> ValidKey], DefaultConfig } \cup
    { [i \in Apis |-> IF i = k THEN ValidKey ELSE ""] : k \in Apis }

\* The arguments of an adapter call that is not under way.
NoRequest ==
    [ provider |-> 0, api_key |-> "", model |-> "", text |-> "",
      streaming |-> FALSE, on_chunk |-> FALSE ]

\* The batch body of a call that has read none.
NoBody == [parsed |-> FALSE, present |-> FALSE, text |-> <<>>]

\* The value of ad_result before the call has returned.
NoResult == [ok |-> FALSE, val |-> <<>>]

\* The call has met no transport failure.  A failure is the reqwest::Error of
\* one phase of the call with what is_timeout() and is_connect() say of it;
\* after is the duration, in seconds, of the timeout that expired.
NoFault ==
    [phase |-> "none", is_timeout |-> FALSE, is_connect |-> FALSE, after |-> 0]

\* No adapter call is followed step by step: the dispatch model takes a call's
\* result from CallOutcomes.
AdapterIdle ==
    /\ ad_pc = "idle"
    /\ ad_req = NoRequest
    /\ ad_http = 0
    /\ ad_read = 0
    /\ ad_buffer = <<>>
    /\ ad_collected = <<>>
    /\ ad_sink = <<>>
    /\ ad_body = NoBody
    /\ ad_result = NoResult
    /\ ad_exit = "none"
    /\ ad_done = FALSE
    /\ ad_skipped = FALSE
    /\ ad_fault = NoFault

\* --------------------------------------------------------- configuration file
\* Config::load and Config::save (config.rs) on the file at one path.  A string
\* is the sequence of its characters; a default value is one symbol.

\* Number of calls of Config::save explored.
MaxSaves == 2

\* Length of an API key in a Config that is saved.
MaxKeyLen == 2

\* config.rs:55-81, impl Default for Config.
Config_default ==
    [ api_keys    |-> [ openai |-> <<>>, anthropic |-> <<>>,
                        gemini |-> <<>>, deepseek |-> <<>> ],
      models      |-> [ openai    |-> <<"gpt-5-mini">>,
                        anthropic |-> <<"claude-3-7-sonnet-latest">>,
                        gemini    |-> <<"gemini-2.5-flash">>,
                        deepseek  |-> <<"deepseek-chat">> ],
      settings    |-> [ auto_startup    |-> FALSE,
                        default_style   |-> <<"normal">>,
                        highlight_diffs |-> FALSE ],
      ai_settings |-> [ reasoning_effort |-> <<"high">>,
                        verbosity        |-> <<"medium">> ] ]

\* The characters of a configured string: a letter, whitespace, and the two
\* characters a TOML basic string escapes.
ConfigChars == {"a", " ", "\"", "\\"}

NeedsEscape(c) == c \in {"\"", "\\"}

\* Mutant of EscapeToml: the characters are written as they are.
EscapeToml_Raw(str) == str

\* toml::to_string_pretty on a string value: the quote and the backslash are
\* written with a backslash before them.
RECURSIVE EscapeToml(_)
EscapeToml(str) ==
    IF str = <<>> THEN <<>>
    ELSE (IF NeedsEscape(Head(str)) THEN <<"\\", Head(str)>> ELSE <<Head(str)>>)
         \o EscapeToml(Tail(str))

\* The value as it stands in the file, between quotes.
QuoteToml(str) == <<"\"">> \o EscapeToml(str) \o <<"\"">>

\* toml::from_str on the inside of a quoted value: the string, or a failure
\* for a quote that is not escaped or a backslash with nothing after it.
RECURSIVE UnescapeToml(_)
UnescapeToml(enc) ==
    IF enc = <<>> THEN [ok |-> TRUE, str |-> <<>>]
    ELSE IF Head(enc) = "\"" THEN [ok |-> FALSE, str |-> <<>>]
    ELSE IF Head(enc) = "\\"
    THEN IF Len(enc) < 2 \/ ~NeedsEscape(enc[2]) THEN [ok |-> FALSE, str |-> <<>>]
         ELSE LET rest == UnescapeToml(SubSeq(enc, 3, Len(enc)))
              IN [ok |-> rest.ok, str |-> <<enc[2]>> \o rest.str]
    ELSE LET rest == UnescapeToml(Tail(enc))
         IN [ok |-> rest.ok, str |-> <<Head(enc)>> \o rest.str]

\* toml::from_str on a quoted value.
ParseToml(quoted) ==
    IF Len(quoted) < 2 \/ Head(quoted) # "\"" \/ quoted[Len(quoted)] # "\""
    THEN [ok |-> FALSE, str |-> <<>>]
    ELSE UnescapeToml(SubSeq(quoted, 2, Len(quoted) - 1))

\* config.rs:5-53 with toml::to_string_pretty (config.rs:91): the document of
\* a Config, its tables and keys under their serde names.
ToToml(c) ==
    [ api_keys    |-> [ OpenAI    |-> QuoteToml(c.api_keys.openai),
                        Anthropic |-> QuoteToml(c.api_keys.anthropic),
                        Gemini    |-> QuoteToml(c.api_keys.gemini),
                        DeepSeek  |-> QuoteToml(c.api_keys.deepseek) ],
      models      |-> [ OpenAI    |-> QuoteToml(c.models.openai),
                        Anthropic |-> QuoteToml(c.models.anthropic),
                        Gemini    |-> QuoteToml(c.models.gemini),
                        DeepSeek  |-> QuoteToml(c.models.deepseek) ],
      settings    |-> [ AutoStartup    |-> c.settings.auto_startup,
                        DefaultStyle   |-> QuoteToml(c.settings.default_style),
                        HighlightDiffs |-> c.settings.highlight_diffs ],
      ai_settings |-> [ ReasoningEffort |-> QuoteToml(c.ai_settings.reasoning_effort),
                        Verbosity       |-> QuoteToml(c.ai_settings.verbosity) ] ]

\* The quoted values of a document.
TomlStrings(doc) ==
    { doc.api_keys.OpenAI, doc.api_keys.Anthropic, doc.api_keys.Gemini,
      doc.api_keys.DeepSeek, doc.models.OpenAI, doc.models.Anthropic,
      doc.models.Gemini, doc.models.DeepSeek, doc.settings.DefaultStyle,
      doc.ai_settings.ReasoningEffort, doc.ai_settings.Verbosity }

\* config.rs:5-53 with toml::from_str (config.rs:86): the Config of a document
\* all of whose values parse.
FromToml(doc) ==
    [ api_keys    |-> [ openai    |-> ParseToml(doc.api_keys.OpenAI).str,
                        anthropic |-> ParseToml(doc.api_keys.Anthropic).str,
                        gemini    |-> ParseToml(doc.api_keys.Gemini).str,
                        deepseek  |-> ParseToml(doc.api_keys.DeepSeek).str ],
      models      |-> [ openai    |-> ParseToml(doc.models.OpenAI).str,
                        anthropic |-> ParseToml(doc.models.Anthropic).str,
                        gemini    |-> ParseToml(doc.models.Gemini).str,
                        deepseek  |-> ParseToml(doc.models.DeepSeek).str ],
      settings    |-> [ auto_startup    |-> doc.settings.AutoStartup,
                        default_style   |-> ParseToml(doc.settings.DefaultStyle).str,
                        highlight_diffs |-> doc.settings.HighlightDiffs ],
      ai_settings |-> [ reasoning_effort |-> ParseToml(doc.ai_settings.ReasoningEffort).str,
                        verbosity        |-> ParseToml(doc.ai_settings.Verbosity).str ] ]

\* No file at the path.  kind is "absent", "toml" (a document) or "damaged"
\* (content that is no document: a write that did not finish); only a file of
\* kind "toml" has a document.
NoFile == [kind |-> "absent", doc |-> <<>>]

DamagedFile == [kind |-> "damaged", doc |-> <<>>]

TomlFile(doc) == [kind |-> "toml", doc |-> doc]

\* Result<Config, Box<dyn Error>>; an error carries no Config.
ConfigOk(c) == [called |-> TRUE, ok |-> TRUE, val |-> c]

ConfigErr == [called |-> TRUE, ok |-> FALSE, val |-> <<>>]

NotLoaded == [called |-> FALSE, ok |-> FALSE, val |-> <<>>]

\* No save has returned Ok since the file was last touched.
NoSave == [some |-> FALSE, val |-> <<>>]

\* Mutant of LoadResult: a document with an empty API key is refused.
LoadResult_RefusesEmptyKey(file) ==
    IF file.kind # "toml" THEN ConfigErr
    ELSE IF \E q \in TomlStrings(file.doc) : ~ParseToml(q).ok \/ ParseToml(q).str = <<>>
    THEN ConfigErr
    ELSE ConfigOk(FromToml(file.doc))

\* config.rs:84-88: read_to_string fails for a missing file, from_str for
\* content that is no document of a Config.
LoadResult(file) ==
    IF file.kind # "toml" THEN ConfigErr
    ELSE IF \E q \in TomlStrings(file.doc) : ~ParseToml(q).ok THEN ConfigErr
    ELSE ConfigOk(FromToml(file.doc))

\* The strings of at most n configured characters.
RECURSIVE ConfigStrings(_)
ConfigStrings(n) ==
    IF n = 0 THEN { <<>> }
    ELSE LET shorter == ConfigStrings(n - 1)
         IN shorter \cup { Append(str, c) : str \in shorter, c \in ConfigChars }

\* The Config values that are saved: the default with any OpenAI key, with or
\* without a DeepSeek key, with AutoStartup on or off.
ConfigValues ==
    { [Config_default EXCEPT !.api_keys.openai = k,
                             !.api_keys.deepseek = d,
                             !.settings.auto_startup = a] :
          k \in ConfigStrings(MaxKeyLen), d \in {<<>>, <<"a">>}, a \in BOOLEAN }

\* The configuration file is not followed: MainWindow::new has read it.
ConfigIdle ==
    /\ cf_file = NoFile
    /\ cf_last = NoSave
    /\ cf_loaded = NotLoaded
    /\ cf_saves = 0

\* ------------------------------------------------------------------- hotkey
\* HotkeyManager (hotkey.rs) as setup_hotkey (app.rs:725-757) uses it.

\* Number of GlobalHotKeyEvents waiting at the receiver.
MaxEvents == 6

\* hotkey.rs:56-61: the manager before any registration.
NewManager == [registered_hotkey |-> "None", active_combo |-> "None"]

\* No registration has been attempted.
NotTried == [manager |-> "no", primary |-> "no", fallback |-> "no"]

\* setup_hotkey is not followed.
HotkeyIdle ==
    /\ hk_pc = "idle"
    /\ hk_mgr = NewManager
    /\ hk_os = {}
    /\ hk_tried = NotTried
    /\ hk_ret = "none"
    /\ hk_events = <<>>
    /\ hk_tx = <<>>
    /\ hk_async = <<>>
    /\ hk_pressed = 0
    /\ hk_handled = 0

\* streaming_panel.rs:10-16, StreamingPanel::new, with its channel.
PanelNew ==
    /\ sp_pc = "idle"
    /\ sp_text = <<>>
    /\ sp_chan = <<>>
    /\ sp_tx = TRUE
    /\ sp_sent = <<>>
    /\ sp_before = <<>>
    /\ sp_mark = 0

\* ui/settings.rs:27-42, SettingsDialog::new.
SettingsDialog_new ==
    [ temp_openai_key       |-> <<>>,
      temp_anthropic_key    |-> <<>>,
      temp_gemini_key       |-> <<>>,
      temp_deepseek_key     |-> <<>>,
      temp_openai_model     |-> <<>>,
      temp_anthropic_model  |-> <<>>,
      temp_gemini_model     |-> <<>>,
      temp_deepseek_model   |-> <<>>,
      temp_reasoning_effort |-> <<"high">>,
      temp_verbosity        |-> <<"medium">>,
      validation_error      |-> "None" ]

\* Result<(), String>: Ok(()) or Err(msg); NoReturn before any call.
UnitOk == [called |-> TRUE, ok |-> TRUE, msg |-> ""]

UnitErr(msg) == [called |-> TRUE, ok |-> FALSE, msg |-> msg]

NoReturn == [called |-> FALSE, ok |-> FALSE, msg |-> ""]

\* No settings dialog is open: there is no dialog and no Config to save to.
SettingsIdle ==
    /\ sd_pc = "idle"
    /\ sd = <<>>
    /\ sd_config = <<>>
    /\ sd_ret = NoReturn

\* The GTK thread is not inside handle_hotkey_triggered.
DispatchIdle ==
    /\ dp_pc = "idle"
    /\ dp_i = 0
    /\ dp_log = <<>>

\* clipboard.rs:50-57, read_text: Err, or Ok with the text of the clipboard.
ClipErr == [ok |-> FALSE, text |-> ""]

ClipOk(text) == [ok |-> TRUE, text |-> text]

\* No trigger has been handled.
TriggerIdle == h_trigger = [n |-> 0, idle |-> 0, last |-> ClipErr]

\* No get_or_update call has been made.
NoDiffCall ==
    [ calls |-> 0, original |-> <<>>, corrected |-> <<>>,
      stored_original |-> <<>>, stored_corrected |-> <<>>, recomputed |-> FALSE ]

\* No CachedDiff is in use.
DiffIdle ==
    /\ cd = [original |-> <<>>, corrected |-> <<>>, changes |-> <<>>]
    /\ cd_ret = <<>>
    /\ cd_hist = NoDiffCall

\* No response body is being read.
SplitIdle ==
    /\ ss_pc = "idle"
    /\ ss_body = <<>>
    /\ ss_chunks = <<>>
    /\ ss_collected = <<>>
    /\ ss_sink = <<>>
    /\ ss_result = [ok |-> FALSE, val |-> <<>>]

\* No provider task has begun its call: h_issue has an entry for the task i
\* of dispatch d, under <<d, i>>, once that task has begun its call.
TaskIdle == h_issue = <<>>

\* Task i of dispatch d has begun its call.
Issued(d, i) == <<d, i>> \in DOMAIN h_issue

LibIdle ==
    /\ ConfigIdle /\ HotkeyIdle /\ PanelNew /\ SettingsIdle /\ DispatchIdle
    /\ TaskIdle /\ SplitIdle /\ TriggerIdle /\ DiffIdle

\* hotkey.rs:51-54: GlobalHotKeyManager::new(); new returns its error.
CreateManager ==
    /\ hk_pc = "new"
    /\ \/ /\ hk_tried' = [hk_tried EXCEPT !.manager = "ok"]
          /\ hk_pc' = "primary"
          /\ UNCHANGED hk_ret
       \/ /\ hk_tried' = [hk_tried EXCEPT !.manager = "failed"]
          /\ hk_ret' = "Err"
          /\ hk_pc' = "ended"
    /\ UNCHANGED <<hk_mgr, hk_os, hk_events, hk_tx, hk_async, hk_pressed,
                   hk_handled, progVars, histVars, adapterVars, configVars,
                   panelVars, settingsVars, dispatchVars, taskVars, splitVars, triggerVars, diffVars>>

\* Mutant of Registered: the active combination is always the primary one.
Registered_AlwaysPrimary(mgr, combo) ==
    [registered_hotkey |-> combo, active_combo |-> "Primary"]

\* hotkey.rs:77-78 and 96-97: the manager after a registration succeeded.
Registered(mgr, combo) ==
    [registered_hotkey |-> combo, active_combo |-> combo]

\* hotkey.rs:68-85 called at hotkey.rs:107: on success register_with_fallback
\* and new return Ok, and setup_hotkey blocks on rx.recv().
try_register_primary_hotkey ==
    /\ hk_pc = "primary"
    /\ \/ /\ hk_os' = hk_os \cup {"Primary"}
          /\ hk_mgr' = Registered(hk_mgr, "Primary")
          /\ hk_tried' = [hk_tried EXCEPT !.primary = "ok"]
          /\ hk_ret' = "Ok"
          /\ hk_pc' = "waiting"
       \/ /\ hk_tried' = [hk_tried EXCEPT !.primary = "failed"]
          /\ hk_pc' = "fallback"
          /\ UNCHANGED <<hk_os, hk_mgr, hk_ret>>
    /\ UNCHANGED <<hk_events, hk_tx, hk_async, hk_pressed, hk_handled,
                   progVars, histVars, adapterVars, configVars,
                   panelVars, settingsVars, dispatchVars, taskVars, splitVars, triggerVars, diffVars>>

\* hotkey.rs:153-163, impl Drop: the registered hotkey, if any, is
\* unregistered.
DropManager(os, mgr) == os \ {mgr.registered_hotkey}

\* hotkey.rs:87-104 called at hotkey.rs:113: when this fails too,
\* register_with_fallback returns Err, new drops the manager and returns the
\* error, and the thread of setup_hotkey ends.
try_register_fallback_hotkey ==
    /\ hk_pc = "fallback"
    /\ \/ /\ hk_os' = hk_os \cup {"Fallback"}
          /\ hk_mgr' = Registered(hk_mgr, "Fallback")
          /\ hk_tried' = [hk_tried EXCEPT !.fallback = "ok"]
          /\ hk_ret' = "Ok"
          /\ hk_pc' = "waiting"
       \/ /\ hk_tried' = [hk_tried EXCEPT !.fallback = "failed"]
          /\ hk_os' = DropManager(hk_os, hk_mgr)
          /\ hk_ret' = "Err"
          /\ hk_pc' = "ended"
          /\ UNCHANGED hk_mgr
    /\ UNCHANGED <<hk_events, hk_tx, hk_async, hk_pressed, hk_handled,
                   progVars, histVars, adapterVars, configVars,
                   panelVars, settingsVars, dispatchVars, taskVars, splitVars, triggerVars, diffVars>>

\* The user presses or releases a registered combination: global_hotkey puts
\* a GlobalHotKeyEvent with the hotkey's id at GlobalHotKeyEvent::receiver().
KeyEvent(combo, state) ==
    /\ combo \in hk_os
    /\ Len(hk_events) < MaxEvents
    /\ hk_events' = Append(hk_events, [id |-> combo, state |-> state])
    /\ hk_pressed' = IF state = "Pressed" THEN hk_pressed + 1 ELSE hk_pressed
    /\ UNCHANGED <<hk_pc, hk_mgr, hk_os, hk_tried, hk_ret, hk_tx, hk_async,
                   hk_handled, progVars, histVars, adapterVars, configVars,
                   panelVars, settingsVars, dispatchVars, taskVars, splitVars, triggerVars, diffVars>>

\* hotkey.rs:130-146, one round of the loop of start_event_loop with an event
\* at the receiver: a Pressed event of the registered hotkey is sent on as
\* HotkeyEvent::Triggered.
EventLoopStep ==
    /\ hk_events # <<>>
    /\ hk_events' = Tail(hk_events)
    /\ hk_tx' = IF /\ Head(hk_events).state = "Pressed"
                   /\ hk_mgr.registered_hotkey # "None"
                   /\ Head(hk_events).id = hk_mgr.registered_hotkey
                THEN Append(hk_tx, "Triggered")
                ELSE hk_tx
    /\ UNCHANGED <<hk_pc, hk_mgr, hk_os, hk_tried, hk_ret, hk_async, hk_pressed,
                   hk_handled, progVars, histVars, adapterVars, configVars,
                   panelVars, settingsVars, dispatchVars, taskVars, splitVars, triggerVars, diffVars>>

\* app.rs:736-738: the thread of setup_hotkey passes an event of the manager's
\* channel on to the async channel.
ThreadForward ==
    /\ hk_pc = "waiting"
    /\ hk_tx # <<>>
    /\ hk_tx' = Tail(hk_tx)
    /\ hk_async' = Append(hk_async, Head(hk_tx))
    /\ UNCHANGED <<hk_pc, hk_mgr, hk_os, hk_tried, hk_ret, hk_events, hk_pressed,
                   hk_handled, progVars, histVars, adapterVars, configVars,
                   panelVars, settingsVars, dispatchVars, taskVars, splitVars, triggerVars, diffVars>>

\* app.rs:743-756: the GTK loop takes an event and runs
\* handle_hotkey_triggered (followed in the dispatch model as HotkeyTriggered).
GuiRecv ==
    /\ hk_async # <<>>
    /\ hk_async' = Tail(hk_async)
    /\ hk_handled' = hk_handled + 1
    /\ UNCHANGED <<hk_pc, hk_mgr, hk_os, hk_tried, hk_ret, hk_events, hk_tx,
                   hk_pressed, progVars, histVars, adapterVars, configVars,
                   panelVars, settingsVars, dispatchVars, taskVars, splitVars, triggerVars, diffVars>>

\* config.rs:90-94, Config::save of the value c: fs::write replaces the
\* content of the file.  When it fails the file is as it was (it could not be
\* opened) or is left with a part of the text.
Config_save(c) ==
    /\ cf_saves < MaxSaves
    /\ cf_saves' = cf_saves + 1
    /\ \/ /\ cf_file' = TomlFile(ToToml(c))
          /\ cf_last' = [some |-> TRUE, val |-> c]
       \/ /\ cf_file' \in {cf_file, DamagedFile}
          /\ cf_last' = NoSave
    /\ UNCHANGED <<cf_loaded, progVars, histVars, adapterVars,
                   hotkeyVars, panelVars, settingsVars, dispatchVars, taskVars, splitVars, triggerVars, diffVars>>

\* config.rs:84-88, Config::load.
Config_load ==
    /\ cf_loaded' = LoadResult(cf_file)
    /\ UNCHANGED <<cf_file, cf_last, cf_saves, progVars, histVars, adapterVars,
                   hotkeyVars, panelVars, settingsVars, dispatchVars, taskVars, splitVars, triggerVars, diffVars>>

\* MainWindow::new: AppState as constructed.
Init ==
    /\ AdapterIdle
    /\ LibIdle
    /\ session_id = 0
    /\ cancel_flags = [i \in Apis |-> FALSE]
    /\ panels = [i \in Apis |-> InitPanel]
    /\ completed_count = 0
    /\ status_label = "ready"
    /\ config \in Configs
    /\ tasks = [d \in Sessions |-> [i \in Apis |-> NoTask]]
    /\ chan = [d \in Sessions |-> <<>>]
    /\ relay = [d \in Sessions |-> "none"]
    /\ hotkey_wait = 0
    /\ clicks = 0
    /\ h_cancel_all = FALSE
    /\ h_cancel_one = [i \in Apis |-> FALSE]
    /\ h_ret = [i \in Apis |-> NoRet]
    /\ h_sent = [i \in Apis |-> 0]
    /\ h_applied = [i \in Apis |-> 0]
    /\ h_quiet = FALSE

\* ------------------------------------------------ prepare_processing_session
\* Mutant of NextSessionId: the counter is not advanced past its first value.
NextSessionId_SticksAtOne(s) == IF s = 0 THEN 1 ELSE s

\* line 783: session_id.fetch_add(1) + 1
NextSessionId(s) == s + 1

\* lines 792-794: every cancel flag is stored false.
PrepareFlags(flags) == [i \in Apis |-> FALSE]

\* lines 796-813: every panel is reset for the new session.
PreparePanel(panel) ==
    [ is_processing    |-> TRUE,
      is_completed     |-> FALSE,
      has_error        |-> FALSE,
      cancel_sensitive |-> TRUE,
      result_text      |-> <<>>,
      view             |-> <<"preparing">> ]

prepare_processing_session ==
    /\ session_id' = NextSessionId(session_id)
    /\ completed_count' = 0
    /\ status_label' = "sending"
    /\ cancel_flags' = PrepareFlags(cancel_flags)
    /\ panels' = [i \in Apis |-> PreparePanel(panels[i])]

\* --------------------------------------------------------- process_with_apis
\* lines 826-877: the channel is created, one task per provider is spawned
\* with its clone of the config, the future's own sender is dropped and the
\* future waits in rx.recv().  `session` is the id the future was given.
SpawnTasks(session, cfg) ==
    /\ tasks' = [tasks EXCEPT ![session] =
                    [i \in Apis |-> [st |-> "calling", api_key |-> cfg[i], requests |-> 0]]]
    /\ chan' = [chan EXCEPT ![session] = <<>>]
    /\ relay' = [relay EXCEPT ![session] = "running"]

Running == { d \in Sessions : relay[d] = "running" }

\* Results of running dispatches that are still outstanding.
Outstanding(d) ==
    Cardinality({ i \in Apis : tasks[d][i].st = "calling" }) + Len(chan[d])

RECURSIVE SumOutstanding(_)
SumOutstanding(ds) ==
    IF ds = {} THEN 0
    ELSE LET d == CHOOSE x \in ds : TRUE
         IN Outstanding(d) + SumOutstanding(ds \ {d})

\* handle_hotkey_triggered (lines 759-776) with a clipboard text that was read
\* and is not empty, run by the paste button's future or by the hotkey loop,
\* up to the first await of process_with_apis.
StartSession(src) ==
    /\ session_id < MaxSession
    /\ SumOutstanding(Sessions) <= MaxStale
    /\ prepare_processing_session
    /\ SpawnTasks(session_id', config)
    /\ hotkey_wait' = IF src = "hotkey" THEN session_id' ELSE hotkey_wait
    /\ h_cancel_all' = FALSE
    /\ h_cancel_one' = [i \in Apis |-> FALSE]
    /\ h_ret' = [i \in Apis |-> NoRet]
    /\ h_sent' = [i \in Apis |-> 0]
    /\ h_applied' = [i \in Apis |-> 0]
    /\ h_quiet' = (Running = {})

handle_hotkey_triggered(src) ==
    /\ StartSession(src)
    /\ UNCHANGED <<config, clicks, adapterVars, libVars>>

\* The clipboards a trigger can find: unreadable, empty, holding a text.
Clipboards == { ClipErr, ClipOk(""), ClipOk("text") }

\* Number of triggers that find no text.
MaxIdle == 1

\* Mutant of ClipboardHasText: an empty clipboard text is accepted.
ClipboardHasText_AcceptsEmpty(clip) == clip.ok

\* lines 760-761: if let Ok(text) = clipboard::read_text() { if !text.is_empty()
ClipboardHasText(clip) == clip.ok /\ clip.text # ""

\* lines 771-774: an empty text is reported on the status line; an unreadable
\* clipboard changes nothing.
NoTextStatus(clip, status) == IF clip.ok THEN "no_text" ELSE status

\* handle_hotkey_triggered (lines 759-776) with the clipboard it finds.
Trigger(src, clip) ==
    /\ src = "hotkey" => hotkey_wait = 0
    /\ h_trigger' = [ n    |-> h_trigger.n + 1,
                      idle |-> IF ClipboardHasText(clip)
                               THEN h_trigger.idle ELSE h_trigger.idle + 1,
                      last |-> clip ]
    /\ IF ClipboardHasText(clip)
       THEN StartSession(src)
       ELSE /\ h_trigger.idle < MaxIdle
            /\ status_label' = NoTextStatus(clip, status_label)
            /\ UNCHANGED <<session_id, cancel_flags, panels, completed_count,
                           tasks, chan, relay, hotkey_wait, h_cancel_all,
                           h_cancel_one, h_ret, h_sent, h_applied, h_quiet>>
    /\ UNCHANGED <<config, clicks, adapterVars, configVars, hotkeyVars, panelVars,
                   settingsVars, dispatchVars, taskVars, splitVars, diffVars>>

\* connect_buttons, lines 562-570: each click spawns its own future.
PasteClicked == handle_hotkey_triggered("paste")

\* Mutant of HotkeyTriggered: the loop spawns a future for each event instead
\* of awaiting the handler.
HotkeyTriggered_NoAwait == handle_hotkey_triggered("hotkey")

\* setup_hotkey, lines 743-756: the loop takes the next event only after the
\* handle_hotkey_triggered of the previous one returned.
HotkeyTriggered ==
    /\ hotkey_wait = 0
    /\ handle_hotkey_triggered("hotkey")

\* ------------------------------------------------- the dispatch step by step
\* handle_hotkey_triggered followed statement by statement on the GTK thread,
\* while the provider tasks of tokio's worker threads run beside it.

\* One step of a dispatch as it was taken: the session counter and the cancel
\* flags are the values right after the step.
DispatchStep(ev, i, session, flags) ==
    [ev |-> ev, i |-> i, session |-> session, flags |-> flags]

\* lines 759-790: the clipboard text was read and is not empty; the session
\* counter is advanced and the counters and labels are reset.
DispatchBegin(src) ==
    /\ dp_pc = "idle"
    /\ session_id < MaxSession
    /\ SumOutstanding(Sessions) <= MaxStale
    /\ src = "hotkey" => hotkey_wait = 0
    /\ session_id' = NextSessionId(session_id)
    /\ completed_count' = 0
    /\ status_label' = "sending"
    /\ dp_pc' = "flags"
    /\ dp_i' = 0
    /\ dp_log' = <<DispatchStep("fetch_add", 0, session_id', cancel_flags)>>
    /\ hotkey_wait' = IF src = "hotkey" THEN session_id' ELSE hotkey_wait
    /\ h_cancel_all' = FALSE
    /\ h_cancel_one' = [i \in Apis |-> FALSE]
    /\ h_ret' = [i \in Apis |-> NoRet]
    /\ h_sent' = [i \in Apis |-> 0]
    /\ h_applied' = [i \in Apis |-> 0]
    /\ h_quiet' = (Running = {})
    /\ UNCHANGED <<cancel_flags, panels, config, tasks, chan, relay, clicks,
                   adapterVars, configVars, hotkeyVars, panelVars, settingsVars, taskVars, splitVars, triggerVars, diffVars>>

\* Mutant of StoreFlag: the flag is left as it is.
StoreFlag_LeavesFlag(flags, i) == flags

\* line 793: flag.store(false, Ordering::SeqCst)
StoreFlag(flags, i) == [flags EXCEPT ![i] = FALSE]

\* lines 792-794: one turn of the loop over the cancel flags.
DispatchStoreFlag ==
    /\ dp_pc = "flags"
    /\ cancel_flags' = StoreFlag(cancel_flags, dp_i)
    /\ dp_log' = Append(dp_log, DispatchStep("store", dp_i, session_id, cancel_flags'))
    /\ dp_pc' = IF dp_i = NumApis - 1 THEN "panels" ELSE "flags"
    /\ dp_i' = IF dp_i = NumApis - 1 THEN 0 ELSE dp_i + 1
    /\ UNCHANGED <<session_id, panels, completed_count, status_label, config,
                   tasks, chan, relay, hotkey_wait, histVars, adapterVars,
                   configVars, hotkeyVars, panelVars, settingsVars, taskVars, splitVars, triggerVars, diffVars>>

\* lines 796-813 and 826: the panels are reset, prepare_processing_session
\* returns and process_with_apis creates the channel.
DispatchPanels ==
    /\ dp_pc = "panels"
    /\ panels' = [i \in Apis |-> PreparePanel(panels[i])]
    /\ chan' = [chan EXCEPT ![session_id] = <<>>]
    /\ dp_pc' = "spawn"
    /\ UNCHANGED <<session_id, cancel_flags, completed_count, status_label,
                   config, tasks, relay, hotkey_wait, histVars, dp_i, dp_log,
                   adapterVars, configVars, hotkeyVars, panelVars, settingsVars, taskVars, splitVars, triggerVars, diffVars>>

\* lines 828-875: one turn of the loop that spawns the provider tasks; after
\* the last turn the future drops its sender and waits in rx.recv() (877-879).
DispatchSpawn ==
    /\ dp_pc = "spawn"
    /\ tasks' = [tasks EXCEPT ![session_id][dp_i] =
                    [st |-> "calling", api_key |-> config[dp_i], requests |-> 0]]
    /\ dp_log' = Append(dp_log, DispatchStep("spawn", dp_i, session_id, cancel_flags))
    /\ relay' = IF dp_i = NumApis - 1
                THEN [relay EXCEPT ![session_id] = "running"] ELSE relay
    /\ dp_pc' = IF dp_i = NumApis - 1 THEN "idle" ELSE "spawn"
    /\ dp_i' = IF dp_i = NumApis - 1 THEN 0 ELSE dp_i + 1
    /\ UNCHANGED <<session_id, cancel_flags, panels, completed_count,
                   status_label, config, chan, hotkey_wait, histVars,
                   adapterVars, configVars, hotkeyVars, panelVars, settingsVars, taskVars, splitVars, triggerVars, diffVars>>

\* ------------------------------------------------------------ provider task
\* openai.rs:63-65, anthropic.rs:77-79, gemini.rs:90-92, deepseek.rs:79-81: a
\* call with an empty key returns before any request; every other call of a
\* dispatch (its text and models are not empty) goes on to send its request.
IssuesRequest(api_key) == api_key # ""

\* lines 836-869: the spawned task is polled for the first time and calls its
\* adapter at once: nothing is read before the call, neither the cancel flag
\* nor the session counter.
TaskStart(d, i) ==
    /\ tasks[d][i].st = "calling"
    /\ ~Issued(d, i)
    /\ h_issue' = h_issue @@ (<<d, i>> :>
            [ cancelled |-> cancel_flags[i],
              stale     |-> d # session_id,
              request   |-> IssuesRequest(tasks[d][i].api_key) ])
    /\ UNCHANGED <<progVars, histVars, adapterVars, configVars, hotkeyVars,
                   panelVars, settingsVars, dispatchVars, splitVars, triggerVars, diffVars>>

\* Mutant of ShouldSend: the cancel flag is not consulted.
ShouldSend_IgnoresFlag(cancel) == TRUE

\* line 871: if !cancel.load(Ordering::SeqCst)
ShouldSend(cancel) == ~cancel

\* Mutant of SendResult: the result is sent twice.
SendResult_Twice(queue, i, result) ==
    Append(Append(queue, <<i, MapErrToString(result)>>), <<i, MapErrToString(result)>>)

\* line 872: tx.send((i, result.map_err(|e| e.to_string())))
SendResult(queue, i, result) == Append(queue, <<i, MapErrToString(result)>>)

\* lines 837-873: the call returns with its result r, the task loads its
\* cancel flag, sends the result unless the flag is set, and ends (its sender
\* is dropped).  The flag load is the step's only read of state that another
\* thread writes, and a send to the unbounded channel never waits, so the step
\* is taken as one action at the moment of the load.
TaskReturn(d, i) ==
    /\ tasks[d][i].st = "calling"
    /\ \E r \in CallOutcomes(tasks[d][i].api_key) :
         /\ chan' = [chan EXCEPT ![d] =
                IF ShouldSend(cancel_flags[i]) THEN SendResult(@, i, r) ELSE @]
         /\ h_sent' = IF d = session_id /\ ShouldSend(cancel_flags[i])
                      THEN [h_sent EXCEPT ![i] = @ + 1] ELSE h_sent
         /\ h_ret' = IF d = session_id
                     THEN [h_ret EXCEPT ![i] =
                             [returned |-> TRUE, all |-> h_cancel_all,
                              one |-> h_cancel_one[i], ok |-> r.ok]]
                     ELSE h_ret
         /\ tasks' = [tasks EXCEPT ![d][i] =
                [@ EXCEPT !.st = "done",
                          !.requests = RequestsIssued(tasks[d][i].api_key, r)]]
    /\ UNCHANGED <<session_id, cancel_flags, panels, completed_count, status_label,
                   config, relay, hotkey_wait, clicks, h_cancel_all, h_cancel_one,
                   h_applied, h_quiet, adapterVars, libVars>>

\* ------------------------------------------------------- update_panel_result
\* lines 886-931: the panel after a result was applied to it.  The session
\* parameter (_session) is not read.
UpdatePanel(panel, result, session) ==
    IF result.ok
    THEN [ panel EXCEPT !.is_processing = FALSE,
                        !.cancel_sensitive = FALSE,
                        !.result_text = result.val,
                        !.is_completed = TRUE,
                        !.view = <<"diff">> \o result.val ]
    ELSE [ panel EXCEPT !.is_processing = FALSE,
                        !.cancel_sensitive = FALSE,
                        !.has_error = TRUE,
                        !.view = <<"error">> \o result.val ]

\* lines 918-919: completed_count is incremented for an Ok result.
UpdateCount(count, result) == IF result.ok THEN count + 1 ELSE count

\* Mutant of RelayReady: the relay reads only after the four tasks have ended.
RelayReady_WaitsForAll(d) ==
    chan[d] # <<>> /\ \A i \in Apis : tasks[d][i].st = "done"

\* line 879: rx.recv() returns as soon as the channel holds a message.
RelayReady(d) == chan[d] # <<>>

\* lines 879-881: the relay loop receives the next message and applies it.
RelayRecv(d) ==
    /\ relay[d] = "running"
    /\ RelayReady(d)
    /\ LET index  == Head(chan[d])[1]
           result == Head(chan[d])[2]
       IN /\ panels' = [panels EXCEPT ![index] = UpdatePanel(@, result, d)]
          /\ completed_count' = UpdateCount(completed_count, result)
          /\ h_applied' = IF d = session_id
                          THEN [h_applied EXCEPT ![index] = @ + 1] ELSE h_applied
    /\ chan' = [chan EXCEPT ![d] = Tail(@)]
    /\ UNCHANGED <<session_id, cancel_flags, status_label, config, tasks, relay,
                   hotkey_wait, clicks, h_cancel_all, h_cancel_one, h_ret, h_sent,
                   h_quiet, adapterVars, libVars>>

\* Mutant of ChannelClosed: the future keeps its own sender (no drop(tx)), so
\* the channel never closes.
ChannelClosed_KeepsSender(d) == FALSE

\* rx.recv() returns Err when the channel is empty and every sender is gone:
\* the future's own (line 877) and the one each task drops when it ends.
ChannelClosed(d) ==
    /\ chan[d] = <<>>
    /\ \A i \in Apis : tasks[d][i].st = "done"

\* finalize_processing, lines 933-944.
FinalStatus(completed) == IF completed > 0 THEN "done" ELSE "all_errors"

\* lines 879-883: the relay loop ends and finalize_processing runs; a hotkey
\* dispatch returns to the hotkey loop.
RelayFinalize(d) ==
    /\ relay[d] = "running"
    /\ ChannelClosed(d)
    /\ status_label' = FinalStatus(completed_count)
    /\ relay' = [relay EXCEPT ![d] = "done"]
    /\ hotkey_wait' = IF hotkey_wait = d THEN 0 ELSE hotkey_wait
    /\ UNCHANGED <<session_id, cancel_flags, panels, completed_count, config, tasks,
                   chan, histVars, adapterVars, libVars>>

\* ------------------------------------------------------------------ cancel
\* cancel_single_api, lines 539-548: the panel is marked cancelled.
CancelSinglePanel(panel) ==
    [ panel EXCEPT !.is_processing = FALSE,
                   !.has_error = TRUE,
                   !.cancel_sensitive = FALSE,
                   !.view = <<"cancelled">> ]

\* Mutant of CancelSingleFlags: every flag is stored, not only the panel's.
CancelSingleFlags_SetsAll(flags, index) == [i \in Apis |-> TRUE]

\* line 537: cancel_flags[index].store(true)
CancelSingleFlags(flags, index) == [flags EXCEPT ![index] = TRUE]

\* cancel_single_api, lines 534-551; the panel's cancel button is clickable
\* only while it is sensitive.
cancel_single_api(index) ==
    /\ panels[index].cancel_sensitive
    /\ clicks < MaxCancels
    /\ clicks' = clicks + 1
    /\ cancel_flags' = CancelSingleFlags(cancel_flags, index)
    /\ panels' = [panels EXCEPT ![index] = CancelSinglePanel(@)]
    /\ h_cancel_one' = [h_cancel_one EXCEPT ![index] = TRUE]
    /\ h_quiet' = FALSE
    /\ UNCHANGED <<session_id, completed_count, status_label, config, tasks, chan,
                   relay, hotkey_wait, h_cancel_all, h_ret, h_sent, h_applied,
                   adapterVars, libVars>>

\* Mutant of CancelAllFlags: the loop stops one flag short.
CancelAllFlags_SkipsLast(flags) == [i \in Apis |-> IF i = NumApis - 1 THEN flags[i] ELSE TRUE]

\* Mutant of CancelAllFlags: every flag is flipped instead of stored true.
CancelAllFlags_Toggles(flags) == [i \in Apis |-> ~flags[i]]

\* lines 637-639: every cancel flag is stored true.
CancelAllFlags(flags) == [i \in Apis |-> TRUE]

\* lines 641-654: a panel still processing is marked cancelled.
CancelAllPanel(panel) ==
    IF panel.is_processing
    THEN [ panel EXCEPT !.is_processing = FALSE,
                        !.cancel_sensitive = FALSE,
                        !.view = <<"cancelled">> ]
    ELSE [ panel EXCEPT !.cancel_sensitive = FALSE ]

\* cancel_all_processing, lines 634-660: the session counter is not written.
CancelAllSessionId(s) == s

\* The button can be clicked at any time; a click that repeats a cancel_all of
\* the same session is not counted against MaxCancels.
cancel_all_processing ==
    /\ clicks < MaxCancels \/ h_cancel_all
    /\ clicks' = IF h_cancel_all THEN clicks ELSE clicks + 1
    /\ cancel_flags' = CancelAllFlags(cancel_flags)
    /\ panels' = [i \in Apis |-> CancelAllPanel(panels[i])]
    /\ status_label' = "cancelled"
    /\ session_id' = CancelAllSessionId(session_id)
    /\ h_cancel_all' = TRUE
    /\ h_quiet' = FALSE
    /\ UNCHANGED <<completed_count, config, tasks, chan, relay, hotkey_wait,
                   h_cancel_one, h_ret, h_sent, h_applied, adapterVars, libVars>>

\* ----------------------------------------------------------- provider adapters
\* One call of correct_text_openai, correct_text_anthropic_with_callback,
\* correct_text_gemini_with_callback or correct_text_deepseek_with_callback,
\* followed step by step.  A string is the sequence of its characters.

\* Number of transport chunks of a response stream.
MaxChunks == 2

\* Number of lines in one transport chunk.
MaxLines == 2

\* Length of the first text block of a batch response.
MaxTextLen == 2

\* The characters of a text: a letter and a whitespace character.
Chars == {"a", " "}

IsSpace(c) == c = " "

RECURSIVE TrimStart(_)
TrimStart(str) ==
    IF str # <<>> /\ IsSpace(Head(str)) THEN TrimStart(Tail(str)) ELSE str

RECURSIVE TrimEnd(_)
TrimEnd(str) ==
    IF str # <<>> /\ IsSpace(str[Len(str)])
    THEN TrimEnd(SubSeq(str, 1, Len(str) - 1))
    ELSE str

\* str::trim: leading and trailing whitespace removed.
Trim(str) == TrimEnd(TrimStart(str))

\* The concatenation of a sequence of strings.
RECURSIVE Concat(_)
Concat(strs) == IF strs = <<>> THEN <<>> ELSE Head(strs) \o Concat(Tail(strs))

\* The strings of at most n characters.
RECURSIVE Strings(_)
Strings(n) ==
    IF n = 0 THEN { <<>> }
    ELSE LET shorter == Strings(n - 1)
         IN shorter \cup { Append(str, c) : str \in shorter, c \in Chars }

\* The text fragment a streamed frame can carry.
Fragments == Strings(1)

\* The lines of a transport chunk: a "data: " line whose JSON carries a text
\* fragment, the "data: [DONE]" line, and a line that gives no fragment (not a
\* "data: " line, JSON that does not parse, or a frame without a text field).
\* The parts of one Gemini frame are handled like the fragments of successive
\* lines.
Lines ==
    { [kind |-> "delta", text |-> f] : f \in Fragments } \cup
    { [kind |-> "done", text |-> <<>>], [kind |-> "skip", text |-> <<>>] }

RECURSIVE LineSeqs(_)
LineSeqs(n) ==
    IF n = 0 THEN { <<>> }
    ELSE LET shorter == LineSeqs(n - 1)
         IN shorter \cup { Append(ls, l) : ls \in shorter, l \in Lines }

\* The transport chunks: buffer.lines() of one item of bytes_stream().
Chunks == LineSeqs(MaxLines)

\* The parsed bodies of a 2xx batch response: JSON that does not deserialize,
\* a body without a first text block, a body whose first text block is text.
Bodies ==
    { NoBody, [parsed |-> TRUE, present |-> FALSE, text |-> <<>>] } \cup
    { [parsed |-> TRUE, present |-> TRUE, text |-> t] : t \in Strings(MaxTextLen) }

\* The arguments of the calls explored: the provider, the key, the model and
\* the text, the streaming flag, and whether a chunk sink (on_chunk) is given.
Requests ==
    { [ provider |-> p, api_key |-> k, model |-> m, text |-> t,
        streaming |-> st, on_chunk |-> oc ] :
        p \in Apis, k \in {"", ValidKey}, m \in {"", "model"}, t \in {"", "text"},
        st \in BOOLEAN, oc \in BOOLEAN }

\* Mutant of Validate: the text is checked before the key and the model.
Validate_TextFirst(api_key, model, text) ==
    IF text = "" THEN "Text to correct is empty"
    ELSE IF api_key = "" THEN "API key is empty"
    ELSE IF model = "" THEN "Model is empty"
    ELSE ""

\* openai.rs:63-71, anthropic.rs:77-85, gemini.rs:90-98, deepseek.rs:79-87: the
\* message of the first check that fails, "" when all three pass.
Validate(api_key, model, text) ==
    IF api_key = "" THEN "API key is empty"
    ELSE IF model = "" THEN "Model is empty"
    ELSE IF text = "" THEN "Text to correct is empty"
    ELSE ""

\* The call returns `result` from the place `exit`.
AdapterReturn(result, exit) ==
    /\ ad_result' = result
    /\ ad_exit' = exit
    /\ ad_pc' = "returned"

\* The eager validation at the head of every adapter.
AdapterValidate ==
    /\ ad_pc = "start"
    /\ LET msg == Validate(ad_req.api_key, ad_req.model, ad_req.text)
       IN IF msg # ""
          THEN AdapterReturn(Err(ApiError("Response", msg)), "validation")
          ELSE ad_pc' = "send" /\ UNCHANGED <<ad_result, ad_exit>>
    /\ UNCHANGED <<ad_req, ad_http, ad_read, ad_buffer, ad_collected, ad_sink,
                   ad_body, ad_done, ad_skipped, ad_fault, progVars, histVars, libVars>>

\* error.rs:22-25: the timeout constants, in seconds.
DEFAULT_TIMEOUT == 25

CONNECTION_TIMEOUT == 8

DEEPSEEK_TIMEOUT == 35

\* http_client.rs:8-20: the timeouts of the shared client; 0 is a timeout the
\* builder was not given.
SHARED_CLIENT ==
    [ timeout         |-> DEFAULT_TIMEOUT,
      connect_timeout |-> CONNECTION_TIMEOUT,
      read_timeout    |-> 0 ]

\* http_client.rs:22-34: the streaming client has no request timeout.
STREAMING_CLIENT ==
    [ timeout         |-> 0,
      connect_timeout |-> CONNECTION_TIMEOUT,
      read_timeout    |-> 120 ]

\* openai.rs:73-77: the client correct_text_openai builds for itself.
OpenAiClient ==
    [ timeout         |-> DEFAULT_TIMEOUT,
      connect_timeout |-> CONNECTION_TIMEOUT,
      read_timeout    |-> 0 ]

\* The client that makes the call: openai.rs:73, anthropic.rs:87 (get_client()
\* also when streaming), gemini.rs:100, deepseek.rs:89.
ClientOf(provider, streaming) ==
    IF provider = 0 THEN OpenAiClient
    ELSE IF provider = 1 THEN SHARED_CLIENT
    ELSE IF streaming THEN STREAMING_CLIENT
    ELSE SHARED_CLIENT

\* The request and read timeouts a client has been given.
DataTimeouts(client) == { client.timeout, client.read_timeout } \ {0}

\* The failures of establishing the connection: the connect timeout expires
\* (whatever is_connect() says of that error), or the connection fails.
ConnectFaults(client) ==
    { [ phase |-> "connect", is_timeout |-> TRUE, is_connect |-> c,
        after |-> client.connect_timeout ] : c \in BOOLEAN } \cup
    { [phase |-> "connect", is_timeout |-> FALSE, is_connect |-> TRUE, after |-> 0] }

\* The failures of a phase after the connection stands: one of the client's
\* timeouts expires, or the transport fails otherwise.
DataFaults(client, phase) ==
    { [phase |-> phase, is_timeout |-> TRUE, is_connect |-> FALSE, after |-> t] :
          t \in DataTimeouts(client) } \cup
    { [phase |-> phase, is_timeout |-> FALSE, is_connect |-> FALSE, after |-> 0] }

\* A response whose status is outside 2xx.
StatusFault ==
    [phase |-> "status", is_timeout |-> FALSE, is_connect |-> FALSE, after |-> 0]

\* The constant the adapter's timeout message is formatted with:
\* openai.rs:119, anthropic.rs:113, gemini.rs:142, deepseek.rs:119.
TimeoutNamed(provider) ==
    IF provider = 3 THEN DEEPSEEK_TIMEOUT ELSE DEFAULT_TIMEOUT

\* format!("Request timed out after {}s", secs)
TimeoutMessage(secs) ==
    IF secs = DEFAULT_TIMEOUT THEN "Request timed out after 25s"
    ELSE IF secs = DEEPSEEK_TIMEOUT THEN "Request timed out after 35s"
    ELSE "Request timed out after ?s"

\* The number of seconds a timeout message names, 0 for any other message.
SecondsNamed(msg) ==
    IF msg = "Request timed out after 25s" THEN DEFAULT_TIMEOUT
    ELSE IF msg = "Request timed out after 35s" THEN DEEPSEEK_TIMEOUT
    ELSE 0

\* The map_err closure on client.post(..).send().await: openai.rs:117-125,
\* anthropic.rs:111-119, gemini.rs:140-148, deepseek.rs:117-125.
ClassifySendError(provider, e) ==
    IF e.is_timeout
    THEN ApiError("Timeout", TimeoutMessage(TimeoutNamed(provider)))
    ELSE IF e.is_connect THEN ApiError("Connection", "connect error")
    ELSE ApiError("Response", "transport error")

\* The map_err closure on an item of bytes_stream(): openai.rs:181,
\* anthropic.rs:135, gemini.rs:214, deepseek.rs:141.
ClassifyStreamError(e) == ApiError("Response", "stream error")

\* The map_err closure on response.json().await: openai.rs:135-137,
\* anthropic.rs:165-167, gemini.rs:158-160, deepseek.rs:173-175.
ClassifyBodyError(e) == ApiError("Response", "Failed to parse response")

\* The request is sent once; the call returns its classified error, or goes on
\* to read the 2xx response as a stream or as one body.  correct_text_openai
\* builds its own client first (openai.rs:73-77) and returns a Connection
\* error, with no request sent, when that fails.
AdapterSend ==
    /\ ad_pc = "send"
    /\ LET client == ClientOf(ad_req.provider, ad_req.streaming)
       IN \/ /\ ad_req.provider = 0
             /\ AdapterReturn(Err(ApiError("Connection", "client build error")),
                              "client")
             /\ UNCHANGED <<ad_http, ad_fault>>
          \/ /\ \E e \in ConnectFaults(client) \cup DataFaults(client, "send") :
                   /\ ad_fault' = e
                   /\ AdapterReturn(Err(ClassifySendError(ad_req.provider, e)),
                                    "send")
             /\ ad_http' = ad_http + 1
          \/ /\ ad_fault' = StatusFault
             /\ AdapterReturn(Err(ApiError("Response", "HTTP status")), "status")
             /\ ad_http' = ad_http + 1
          \/ /\ ad_pc' = IF ad_req.streaming THEN "stream" ELSE "batch"
             /\ ad_http' = ad_http + 1
             /\ UNCHANGED <<ad_result, ad_exit, ad_fault>>
    /\ UNCHANGED <<ad_req, ad_read, ad_buffer, ad_collected, ad_sink, ad_body,
                   ad_done, ad_skipped, progVars, histVars, libVars>>

\* Mutant of StreamResult: an empty accumulator is returned as a success.
StreamResult_OkWhenEmpty(collected) == Ok(Trim(collected))

\* openai.rs:205-209 (anthropic.rs:159-163, gemini.rs:251-255,
\* deepseek.rs:167-171): the value returned when the stream has ended.
StreamResult(collected) ==
    IF collected = <<>>
    THEN Err(ApiError("Response", "No content in streaming response"))
    ELSE Ok(Trim(collected))

\* while let Some(chunk_result) = stream.next().await: the stream has ended,
\* has failed, or yields the next transport chunk, which becomes the buffer.
StreamNext ==
    /\ ad_pc = "stream"
    /\ \/ /\ AdapterReturn(StreamResult(ad_collected), "stream_end")
          /\ UNCHANGED <<ad_read, ad_buffer, ad_fault>>
       \/ /\ \E e \in DataFaults(ClientOf(ad_req.provider, ad_req.streaming), "body") :
                /\ ad_fault' = e
                /\ AdapterReturn(Err(ClassifyStreamError(e)), "stream_error")
          /\ UNCHANGED <<ad_read, ad_buffer>>
       \/ /\ ad_read < MaxChunks
          /\ \E chunk \in Chunks : ad_buffer' = chunk
          /\ ad_read' = ad_read + 1
          /\ ad_pc' = "lines"
          /\ UNCHANGED <<ad_result, ad_exit, ad_fault>>
    /\ UNCHANGED <<ad_req, ad_http, ad_collected, ad_sink, ad_body, ad_done,
                   ad_skipped, progVars, histVars, libVars>>

\* The adapters that test a frame for "[DONE]": anthropic.rs has no such test,
\* there the line fails to parse as a StreamEvent.
ChecksDone(provider) == provider # 1

\* The fragments that are accumulated: gemini.rs:232 leaves out an empty text,
\* the other adapters push whatever the frame's text field holds.
TakesFragment(provider, fragment) == provider # 2 \/ fragment # <<>>

\* Mutant of EmitToSink: a fragment of whitespace only is not passed on.
EmitToSink_SkipsBlank(sink, on_chunk, fragment) ==
    IF on_chunk /\ Trim(fragment) # <<>> THEN Append(sink, fragment) ELSE sink

\* anthropic.rs:147-149, gemini.rs:234-236, deepseek.rs:156-158:
\* if let Some(ref callback) = on_chunk { callback(text) }
EmitToSink(sink, on_chunk, fragment) ==
    IF on_chunk THEN Append(sink, fragment) ELSE sink

\* The chunk callback of correct_text_openai_with_callback, the function
\* app.rs:838 calls: every extracted fragment is emitted to the sink.
OpenAiEmitToSink(sink, on_chunk, fragment) ==
    IF on_chunk THEN Append(sink, fragment) ELSE sink

\* for line in buffer.lines(): one line of the buffer is handled.  A "[DONE]"
\* frame breaks out of the for loop only: the rest of the buffer is dropped,
\* buffer.clear() runs and the while loop asks the stream for its next chunk.
StreamLine ==
    /\ ad_pc = "lines"
    /\ ad_buffer # <<>>
    /\ LET line == Head(ad_buffer)
           p    == ad_req.provider
       IN IF line.kind = "done" /\ ChecksDone(p)
          THEN /\ ad_done' = TRUE
               /\ ad_buffer' = <<>>
               /\ ad_pc' = "stream"
               /\ UNCHANGED <<ad_collected, ad_sink, ad_skipped>>
          ELSE IF line.kind = "delta" /\ TakesFragment(p, line.text)
          THEN /\ ad_collected' = ad_collected \o line.text
               /\ ad_sink' = IF p = 0
                             THEN OpenAiEmitToSink(ad_sink, ad_req.on_chunk, line.text)
                             ELSE EmitToSink(ad_sink, ad_req.on_chunk, line.text)
               /\ ad_buffer' = Tail(ad_buffer)
               /\ UNCHANGED <<ad_pc, ad_done, ad_skipped>>
          ELSE /\ ad_skipped' = TRUE
               /\ ad_buffer' = Tail(ad_buffer)
               /\ UNCHANGED <<ad_pc, ad_collected, ad_sink, ad_done>>
    /\ UNCHANGED <<ad_req, ad_http, ad_read, ad_body, ad_result, ad_exit,
                   ad_fault, progVars, histVars, libVars>>

\* The for loop is through the buffer: buffer.clear(), back to stream.next().
StreamChunkEnd ==
    /\ ad_pc = "lines"
    /\ ad_buffer = <<>>
    /\ ad_pc' = "stream"
    /\ UNCHANGED <<ad_req, ad_http, ad_read, ad_buffer, ad_collected, ad_sink,
                   ad_body, ad_result, ad_exit, ad_done, ad_skipped, ad_fault,
                   progVars, histVars, libVars>>

\* The adapters whose batch path trims the text: gemini.rs:169 and
\* deepseek.rs:180 do, openai.rs:142 and anthropic.rs:173 return it as it is.
BatchTrims(provider) == provider \in {2, 3}

\* The message of the batch path for a body without a first text block.
NoBlockMessage(provider) ==
    IF provider \in {0, 3} THEN "No choices in response"
    ELSE "No text content in response"

\* openai.rs:135-143, anthropic.rs:165-175, gemini.rs:158-170,
\* deepseek.rs:173-181: the result of a 2xx batch response.
BatchResult(provider, body) ==
    IF ~body.parsed THEN Err(ApiError("Response", "Failed to parse response"))
    ELSE IF ~body.present THEN Err(ApiError("Response", NoBlockMessage(provider)))
    ELSE IF BatchTrims(provider) THEN Ok(Trim(body.text))
    ELSE Ok(body.text)

\* response.json().await and the extraction of the first text block; reading
\* the body may fail before there is anything to parse.
BatchParse ==
    /\ ad_pc = "batch"
    /\ \/ /\ \E body \in Bodies :
                /\ ad_body' = body
                /\ AdapterReturn(BatchResult(ad_req.provider, body), "batch")
          /\ UNCHANGED ad_fault
       \/ /\ \E e \in DataFaults(ClientOf(ad_req.provider, ad_req.streaming), "body") :
                /\ ad_fault' = e
                /\ AdapterReturn(Err(ClassifyBodyError(e)), "batch_read")
          /\ UNCHANGED ad_body
    /\ UNCHANGED <<ad_req, ad_http, ad_read, ad_buffer, ad_collected, ad_sink,
                   ad_done, ad_skipped, progVars, histVars, libVars>>

\* ------------------------------------------------------------ streaming panel
\* StreamingPanel (ui/streaming_panel.rs) and the sender of its channel, which
\* another thread holds.

\* Number of chunks sent to a panel.
MaxSent == 3

\* The chunks a sender sends.
PanelChunks == { <<"a">>, <<"b">> }

\* tx.send(chunk) on the unbounded channel.
SendChunk(chunk) ==
    /\ sp_tx
    /\ Len(sp_sent) < MaxSent
    /\ sp_chan' = Append(sp_chan, chunk)
    /\ sp_sent' = Append(sp_sent, chunk)
    /\ UNCHANGED <<sp_pc, sp_text, sp_tx, sp_before, sp_mark,
                   progVars, histVars, adapterVars, configVars, hotkeyVars,
                   settingsVars, dispatchVars, taskVars, splitVars, triggerVars, diffVars>>

\* drop(tx): the chunks already sent stay in the channel.
DropSender ==
    /\ sp_tx
    /\ sp_tx' = FALSE
    /\ UNCHANGED <<sp_pc, sp_text, sp_chan, sp_sent, sp_before, sp_mark,
                   progVars, histVars, adapterVars, configVars, hotkeyVars,
                   settingsVars, dispatchVars, taskVars, splitVars, triggerVars, diffVars>>

\* streaming_panel.rs:18-20, StreamingPanel::clear (&mut self: not during
\* update_and_render).
StreamingPanel_clear ==
    /\ sp_pc = "idle"
    /\ sp_text # <<>>
    /\ sp_text' = <<>>
    /\ UNCHANGED <<sp_pc, sp_chan, sp_tx, sp_sent, sp_before, sp_mark,
                   progVars, histVars, adapterVars, configVars, hotkeyVars,
                   settingsVars, dispatchVars, taskVars, splitVars, triggerVars, diffVars>>

\* streaming_panel.rs:30-31: update_and_render is entered.
UpdateBegin ==
    /\ sp_pc = "idle"
    /\ sp_pc' = "draining"
    /\ sp_before' = sp_text
    /\ sp_mark' = Len(sp_sent) - Len(sp_chan)
    /\ UNCHANGED <<sp_text, sp_chan, sp_tx, sp_sent,
                   progVars, histVars, adapterVars, configVars, hotkeyVars,
                   settingsVars, dispatchVars, taskVars, splitVars, triggerVars, diffVars>>

\* Mutant of TryRecv: a channel whose sender is gone yields no more chunks.
TryRecv_ErrWhenClosed(queue, tx) ==
    IF queue # <<>> /\ tx THEN [ok |-> TRUE, chunk |-> Head(queue)]
    ELSE [ok |-> FALSE, chunk |-> <<>>]

\* streaming_panel.rs:33, self.rx.try_recv(): the oldest chunk in the channel,
\* Err(Empty) or Err(Disconnected) only when there is none.
TryRecv(queue, tx) ==
    IF queue # <<>> THEN [ok |-> TRUE, chunk |-> Head(queue)]
    ELSE [ok |-> FALSE, chunk |-> <<>>]

\* streaming_panel.rs:34, self.text.push_str(&chunk)
PushStr(text, chunk) == text \o chunk

\* streaming_panel.rs:33-36: one round of the while let loop; on Err the loop
\* is left and the panel is rendered (lines 38-52).
UpdateRecv ==
    /\ sp_pc = "draining"
    /\ LET r == TryRecv(sp_chan, sp_tx)
       IN IF r.ok
          THEN /\ sp_text' = PushStr(sp_text, r.chunk)
               /\ sp_chan' = Tail(sp_chan)
               /\ UNCHANGED sp_pc
          ELSE /\ sp_pc' = "idle"
               /\ UNCHANGED <<sp_text, sp_chan>>
    /\ UNCHANGED <<sp_tx, sp_sent, sp_before, sp_mark,
                   progVars, histVars, adapterVars, configVars, hotkeyVars,
                   settingsVars, dispatchVars, taskVars, splitVars, triggerVars, diffVars>>

\* -------------------------------------------------------- transport chunking
\* The streaming loop of correct_text_anthropic_with_callback (anthropic.rs:
\* 130-157; deepseek.rs:136-165 and openai.rs:176-203 have the same loop) with
\* the response body as characters and the items of bytes_stream() as the
\* pieces the transport cuts the body into.

\* Number of SSE lines in a response body.
MaxFrames == 2

\* Number of places at which the transport cuts the body.
MaxCuts == 2

\* "data: "
DataPrefix == <<"d", "a", "t", "a", ":", " ">>

\* The text fragments a frame carries.
FrameTexts == {"a", "b"}

\* One SSE line whose JSON is a content_block_delta with the text c; the JSON
\* is written as the three characters { c }.
FrameLine(c) == DataPrefix \o <<"{", c, "}", "\n">>

\* The response bodies: one to MaxFrames such lines.
RECURSIVE FrameBodies(_)
FrameBodies(n) ==
    IF n = 0 THEN { <<>> }
    ELSE LET shorter == FrameBodies(n - 1)
         IN shorter \cup { b \o FrameLine(c) : b \in shorter, c \in FrameTexts }

\* The sets of at most n cut positions inside a body of length len.
RECURSIVE CutSets(_, _)
CutSets(len, n) ==
    IF n = 0 THEN { {} }
    ELSE LET fewer == CutSets(len, n - 1)
         IN fewer \cup { cs \cup {k} : cs \in fewer, k \in 1 .. (len - 1) }

\* The pieces of str when it is cut after each position of cuts.
RECURSIVE CutAt(_, _, _)
CutAt(str, cuts, from) ==
    LET later == { k \in cuts : k >= from }
    IN IF later = {} THEN <<SubSeq(str, from, Len(str))>>
       ELSE LET k == CHOOSE x \in later : \A y \in later : x <= y
            IN <<SubSeq(str, from, k)>> \o CutAt(str, cuts, k + 1)

\* str::lines(): the pieces between line feeds; a last piece without a line
\* feed is a line too, an empty rest is not.
RECURSIVE StrLines(_)
StrLines(str) ==
    IF str = <<>> THEN <<>>
    ELSE LET feeds == { k \in 1 .. Len(str) : str[k] = "\n" }
         IN IF feeds = {} THEN <<str>>
            ELSE LET k == CHOOSE x \in feeds : \A y \in feeds : x <= y
                 IN <<SubSeq(str, 1, k - 1)>> \o StrLines(SubSeq(str, k + 1, Len(str)))

\* line.starts_with("data: ")
StartsWithData(line) ==
    /\ Len(line) >= Len(DataPrefix)
    /\ SubSeq(line, 1, Len(DataPrefix)) = DataPrefix

\* anthropic.rs:140-150: serde_json::from_str of &line[6..]; the text of a
\* content_block_delta that parses, nothing for anything else.
FrameText(line) ==
    LET data == SubSeq(line, Len(DataPrefix) + 1, Len(line))
    IN IF /\ Len(data) = 3
          /\ data[1] = "{"
          /\ data[2] \in FrameTexts
          /\ data[3] = "}"
       THEN <<data[2]>>
       ELSE <<>>

\* anthropic.rs:138-153: the fragments the lines of one buffer give, in order.
RECURSIVE LineFragments(_)
LineFragments(lines) ==
    IF lines = <<>> THEN <<>>
    ELSE (IF StartsWithData(Head(lines)) THEN FrameText(Head(lines)) ELSE <<>>)
            \o LineFragments(Tail(lines))

\* anthropic.rs:154: buffer.clear()
BufferAfterChunk(buffer) == <<>>

\* anthropic.rs:134-154: one item of the byte stream.  The buffer is empty when
\* the item is appended, because every turn of the loop ends with
\* buffer.clear().
SplitStreamNext ==
    /\ ss_pc = "reading"
    /\ ss_chunks # <<>>
    /\ LET buffer == Head(ss_chunks)
           texts == LineFragments(StrLines(buffer))
           rest == BufferAfterChunk(buffer)
       IN /\ ss_collected' = ss_collected \o texts
          /\ ss_sink' = ss_sink \o [k \in 1 .. Len(texts) |-> <<texts[k]>>]
          /\ ss_chunks' = IF Len(ss_chunks) > 1
                          THEN <<rest \o ss_chunks[2]>> \o Tail(Tail(ss_chunks))
                          ELSE <<>>
    /\ UNCHANGED <<ss_pc, ss_body, ss_result, progVars, histVars, adapterVars,
                   configVars, hotkeyVars, panelVars, settingsVars, dispatchVars,
                   taskVars, triggerVars, diffVars>>

\* anthropic.rs:157-161: the stream has ended.
SplitStreamEnd ==
    /\ ss_pc = "reading"
    /\ ss_chunks = <<>>
    /\ ss_pc' = "returned"
    /\ ss_result' = IF ss_collected = <<>>
                    THEN [ok |-> FALSE, val |-> <<>>]
                    ELSE [ok |-> TRUE, val |-> Trim(ss_collected)]
    /\ UNCHANGED <<ss_body, ss_chunks, ss_collected, ss_sink, progVars, histVars,
                   adapterVars, configVars, hotkeyVars, panelVars, settingsVars,
                   dispatchVars, taskVars, triggerVars, diffVars>>

\* --------------------------------------------------------------- CachedDiff
\* diff.rs.  A text is the sequence of the tokens TextDiff::from_words cuts it
\* into.

\* Number of tokens in a text.
MaxWords == 2

\* Number of get_or_update calls.
MaxCalls == 2

\* The tokens of a text.
Words == {"a", "b"}

\* The texts of at most n tokens.
RECURSIVE DiffTexts(_)
DiffTexts(n) ==
    IF n = 0 THEN { <<>> }
    ELSE LET shorter == DiffTexts(n - 1)
         IN shorter \cup { Append(t, w) : t \in shorter, w \in Words }

\* diff.rs:11-19, DiffChange.
DiffChange(tag, text) == [tag |-> tag, text |-> text]

\* diff.rs:21-36, compute_diff: the changes of TextDiff::from_words in order,
\* a shortest edit script that keeps a longest common subsequence of the
\* tokens; where a deletion and an insertion meet, the deletion comes first.
RECURSIVE compute_diff(_, _)
compute_diff(original, corrected) ==
    IF original = <<>>
    THEN [k \in 1 .. Len(corrected) |-> DiffChange("Insert", corrected[k])]
    ELSE IF corrected = <<>>
    THEN [k \in 1 .. Len(original) |-> DiffChange("Delete", original[k])]
    ELSE IF Head(original) = Head(corrected)
    THEN <<DiffChange("Equal", Head(original))>>
            \o compute_diff(Tail(original), Tail(corrected))
    ELSE LET del == <<DiffChange("Delete", Head(original))>>
                        \o compute_diff(Tail(original), corrected)
             ins == <<DiffChange("Insert", Head(corrected))>>
                        \o compute_diff(original, Tail(corrected))
         IN IF Len(del) <= Len(ins) THEN del ELSE ins

\* diff.rs:48-55, CachedDiff::new.
CachedDiff_new(original, corrected) ==
    [ original  |-> original,
      corrected |-> corrected,
      changes   |-> compute_diff(original, corrected) ]

\* Mutant of TextChanged: only the original text is compared.
TextChanged_OriginalOnly(cached, original, corrected) ==
    cached.original # original

\* diff.rs:59: self.original != original || self.corrected != corrected
TextChanged(cached, original, corrected) ==
    cached.original # original \/ cached.corrected # corrected

\* diff.rs:58-65, CachedDiff::get_or_update.
get_or_update(original, corrected) ==
    /\ cd_hist.calls < MaxCalls
    /\ cd' = IF TextChanged(cd, original, corrected)
             THEN [ original  |-> original,
                    corrected |-> corrected,
                    changes   |-> compute_diff(original, corrected) ]
             ELSE cd
    /\ cd_ret' = cd'.changes
    /\ cd_hist' = [ calls            |-> cd_hist.calls + 1,
                    original         |-> original,
                    corrected        |-> corrected,
                    stored_original  |-> cd.original,
                    stored_corrected |-> cd.corrected,
                    recomputed       |-> TextChanged(cd, original, corrected) ]
    /\ UNCHANGED <<progVars, histVars, adapterVars, configVars, hotkeyVars,
                   panelVars, settingsVars, dispatchVars, taskVars, splitVars,
                   triggerVars>>

\* ----------------------------------------------------------- settings dialog
\* SettingsDialog (ui/settings.rs): validate and save_to_config.

\* The content of a text field: empty, whitespace only, or a value with
\* whitespace after it.
FieldValues == { <<>>, <<" ">>, <<"a", " ">> }

\* The dialogs explored: every key field and every model field holds any of
\* the field values.
Dialogs ==
    { [ SettingsDialog_new EXCEPT
            !.temp_openai_key      = f[1],
            !.temp_anthropic_key   = f[2],
            !.temp_gemini_key      = f[3],
            !.temp_deepseek_key    = f[4],
            !.temp_openai_model    = f[5],
            !.temp_anthropic_model = f[6],
            !.temp_gemini_model    = f[7],
            !.temp_deepseek_model  = f[8] ] : f \in [1 .. 8 -> FieldValues] }

\* Mutant of IsBlank: a field of whitespace only counts as filled in.
IsBlank_NoTrim(str) == str = <<>>

\* settings.rs:61: field.trim().is_empty()
IsBlank(str) == Trim(str) = <<>>

\* settings.rs:59-90, SettingsDialog::validate: its return value.
ValidateDialog(dialog) ==
    IF IsBlank(dialog.temp_openai_key)
    THEN UnitErr("OpenAI API key cannot be empty")
    ELSE IF IsBlank(dialog.temp_anthropic_key)
    THEN UnitErr("Anthropic API key cannot be empty")
    ELSE IF IsBlank(dialog.temp_gemini_key)
    THEN UnitErr("Gemini API key cannot be empty")
    ELSE IF IsBlank(dialog.temp_deepseek_key)
    THEN UnitErr("DeepSeek API key cannot be empty")
    ELSE IF IsBlank(dialog.temp_openai_model)
    THEN UnitErr("OpenAI model cannot be empty")
    ELSE IF IsBlank(dialog.temp_anthropic_model)
    THEN UnitErr("Anthropic model cannot be empty")
    ELSE IF IsBlank(dialog.temp_gemini_model)
    THEN UnitErr("Gemini model cannot be empty")
    ELSE IF IsBlank(dialog.temp_deepseek_model)
    THEN UnitErr("DeepSeek model cannot be empty")
    ELSE UnitOk

\* settings.rs:88 and 118: self.validation_error = None
ClearError(dialog) == [dialog EXCEPT !.validation_error = "None"]

\* settings.rs:59-90, SettingsDialog::validate.
SettingsDialog_validate ==
    /\ sd_pc = "open"
    /\ sd_pc' = "validated"
    /\ sd_ret' = ValidateDialog(sd)
    /\ sd' = IF ValidateDialog(sd).ok THEN ClearError(sd) ELSE sd
    /\ UNCHANGED <<sd_config, progVars, histVars, adapterVars, configVars,
                   hotkeyVars, panelVars, dispatchVars, taskVars, splitVars, triggerVars, diffVars>>

\* Mutant of UpdatedConfig: the fields are stored as they were typed.
UpdatedConfig_Untrimmed(dialog, cfg) ==
    [ cfg EXCEPT
        !.api_keys = [ openai    |-> dialog.temp_openai_key,
                       anthropic |-> dialog.temp_anthropic_key,
                       gemini    |-> dialog.temp_gemini_key,
                       deepseek  |-> dialog.temp_deepseek_key ],
        !.models = [ openai    |-> dialog.temp_openai_model,
                     anthropic |-> dialog.temp_anthropic_model,
                     gemini    |-> dialog.temp_gemini_model,
                     deepseek  |-> dialog.temp_deepseek_model ],
        !.ai_settings = [ reasoning_effort |-> dialog.temp_reasoning_effort,
                          verbosity        |-> dialog.temp_verbosity ] ]

\* settings.rs:95-112: the Config after the three assignments.
UpdatedConfig(dialog, cfg) ==
    [ cfg EXCEPT
        !.api_keys = [ openai    |-> Trim(dialog.temp_openai_key),
                       anthropic |-> Trim(dialog.temp_anthropic_key),
                       gemini    |-> Trim(dialog.temp_gemini_key),
                       deepseek  |-> Trim(dialog.temp_deepseek_key) ],
        !.models = [ openai    |-> Trim(dialog.temp_openai_model),
                     anthropic |-> Trim(dialog.temp_anthropic_model),
                     gemini    |-> Trim(dialog.temp_gemini_model),
                     deepseek  |-> Trim(dialog.temp_deepseek_model) ],
        !.ai_settings = [ reasoning_effort |-> dialog.temp_reasoning_effort,
                          verbosity        |-> dialog.temp_verbosity ] ]

\* settings.rs:92-120, SettingsDialog::save_to_config: validate()? returns its
\* error before anything is assigned; then the Config is assigned and saved,
\* and a failing Config::save (config.rs:90-94) is returned as Err.
SettingsDialog_save_to_config ==
    /\ sd_pc \in {"open", "validated"}
    /\ sd_pc' = "saved"
    /\ IF ~ValidateDialog(sd).ok
       THEN /\ sd_ret' = ValidateDialog(sd)
            /\ UNCHANGED <<sd, sd_config, cf_file>>
       ELSE /\ sd_config' = UpdatedConfig(sd, sd_config)
            /\ \/ /\ cf_file' = TomlFile(ToToml(sd_config'))
                  /\ sd_ret' = UnitOk
                  /\ sd' = ClearError(sd)
               \/ /\ cf_file' \in {cf_file, DamagedFile}
                  /\ sd_ret' = UnitErr("Failed to save config")
                  /\ sd' = ClearError(sd)
    /\ UNCHANGED <<cf_last, cf_loaded, cf_saves, progVars, histVars, adapterVars,
                   hotkeyVars, panelVars, dispatchVars, taskVars, splitVars, triggerVars, diffVars>>

\* ------------------------------------------------------------ specification
Next ==
    \/ PasteClicked
    \/ HotkeyTriggered
    \/ \E d \in Sessions, i \in Apis : TaskReturn(d, i)
    \/ \E d \in Sessions : RelayRecv(d)
    \/ \E d \in Sessions : RelayFinalize(d)
    \/ \E i \in Apis : cancel_single_api(i)
    \/ cancel_all_processing

Spec == Init /\ [][Next]_vars

\* The steps the runtimes take on their own: tokio runs every spawned task to
\* its end once its call has returned, and the GTK main loop polls a relay
\* future whose channel has a message or is closed.
Progress ==
    \/ \E d \in Sessions, i \in Apis : TaskReturn(d, i)
    \/ \E d \in Sessions : RelayRecv(d)
    \/ \E d \in Sessions : RelayFinalize(d)

\* The liveness check starts from the configurations in which at most one
\* provider reaches the network.
FairConfigs ==
    { DefaultConfig, [i \in Apis |-> IF i = 0 THEN ValidKey ELSE ""] }

FairInit == Init /\ config \in FairConfigs

FairSpec == FairInit /\ [][Next]_vars /\ WF_vars(Progress)

\* Only the relay is scheduled fairly: the GTK main loop polls a relay future
\* whose channel holds a message, while a provider's call may never return.
\* This check starts from the configuration in which provider 0 has a key.
RelayFairInit == Init /\ config = [i \in Apis |-> IF i = 0 THEN ValidKey ELSE ""]

RelayFairSpec ==
    RelayFairInit /\ [][Next]_vars /\ \A d \in Sessions : WF_vars(RelayRecv(d))

\* An adapter call on its own: the window is as constructed and stays so.
AdapterInit ==
    /\ session_id = 0
    /\ cancel_flags = [i \in Apis |-> FALSE]
    /\ panels = [i \in Apis |-> InitPanel]
    /\ completed_count = 0
    /\ status_label = "ready"
    /\ config = DefaultConfig
    /\ tasks = [d \in Sessions |-> [i \in Apis |-> NoTask]]
    /\ chan = [d \in Sessions |-> <<>>]
    /\ relay = [d \in Sessions |-> "none"]
    /\ hotkey_wait = 0
    /\ clicks = 0
    /\ h_cancel_all = FALSE
    /\ h_cancel_one = [i \in Apis |-> FALSE]
    /\ h_ret = [i \in Apis |-> NoRet]
    /\ h_sent = [i \in Apis |-> 0]
    /\ h_applied = [i \in Apis |-> 0]
    /\ h_quiet = FALSE
    /\ LibIdle
    /\ ad_pc = "start"
    /\ ad_req \in Requests
    /\ ad_http = 0
    /\ ad_read = 0
    /\ ad_buffer = <<>>
    /\ ad_collected = <<>>
    /\ ad_sink = <<>>
    /\ ad_body = NoBody
    /\ ad_result = NoResult
    /\ ad_exit = "none"
    /\ ad_done = FALSE
    /\ ad_skipped = FALSE
    /\ ad_fault = NoFault

AdapterNext ==
    \/ AdapterValidate
    \/ AdapterSend
    \/ StreamNext
    \/ StreamLine
    \/ StreamChunkEnd
    \/ BatchParse

AdapterSpec == AdapterInit /\ [][AdapterNext]_vars

\* The window as constructed, with the default configuration, no dispatch.
AppIdle ==
    /\ session_id = 0
    /\ cancel_flags = [i \in Apis |-> FALSE]
    /\ panels = [i \in Apis |-> InitPanel]
    /\ completed_count = 0
    /\ status_label = "ready"
    /\ config = DefaultConfig
    /\ tasks = [d \in Sessions |-> [i \in Apis |-> NoTask]]
    /\ chan = [d \in Sessions |-> <<>>]
    /\ relay = [d \in Sessions |-> "none"]
    /\ hotkey_wait = 0
    /\ clicks = 0
    /\ h_cancel_all = FALSE
    /\ h_cancel_one = [i \in Apis |-> FALSE]
    /\ h_ret = [i \in Apis |-> NoRet]
    /\ h_sent = [i \in Apis |-> 0]
    /\ h_applied = [i \in Apis |-> 0]
    /\ h_quiet = FALSE

\* The configuration file on its own: saves of any values, loads in between.
ConfigInit ==
    AppIdle /\ AdapterIdle /\ DispatchIdle /\ TaskIdle /\ SplitIdle /\ TriggerIdle /\ DiffIdle /\ ConfigIdle /\ HotkeyIdle
    /\ PanelNew /\ SettingsIdle

ConfigNext ==
    \/ \E c \in ConfigValues : Config_save(c)
    \/ Config_load

ConfigSpec == ConfigInit /\ [][ConfigNext]_vars

\* setup_hotkey from the start of its thread (app.rs:728-731).
HotkeyInit ==
    /\ AppIdle /\ AdapterIdle /\ ConfigIdle /\ PanelNew /\ SettingsIdle
    /\ DispatchIdle /\ TaskIdle /\ SplitIdle /\ TriggerIdle /\ DiffIdle
    /\ hk_pc = "new"
    /\ hk_mgr = NewManager
    /\ hk_os = {}
    /\ hk_tried = NotTried
    /\ hk_ret = "none"
    /\ hk_events = <<>>
    /\ hk_tx = <<>>
    /\ hk_async = <<>>
    /\ hk_pressed = 0
    /\ hk_handled = 0

\* setup_hotkey holds the manager (app.rs:731) and never calls
\* start_event_loop, which only the tests of hotkey.rs call: EventLoopStep is
\* no step of the program, and nothing is ever sent on the manager's channel.
HotkeyNext ==
    \/ CreateManager
    \/ try_register_primary_hotkey
    \/ try_register_fallback_hotkey
    \/ \E state \in {"Pressed", "Released"} : KeyEvent(hk_mgr.registered_hotkey, state)

HotkeySpec == HotkeyInit /\ [][HotkeyNext]_vars

\* A StreamingPanel, its sender on another thread.
PanelInit ==
    AppIdle /\ AdapterIdle /\ DispatchIdle /\ TaskIdle /\ SplitIdle /\ TriggerIdle /\ DiffIdle /\ ConfigIdle /\ HotkeyIdle
    /\ PanelNew /\ SettingsIdle

PanelNext ==
    \/ \E chunk \in PanelChunks : SendChunk(chunk)
    \/ DropSender
    \/ StreamingPanel_clear
    \/ UpdateBegin
    \/ UpdateRecv

PanelSpec == PanelInit /\ [][PanelNext]_vars

\* A settings dialog with its fields filled in, a Config to save to, and the
\* configuration file missing or holding the default configuration.
SettingsInit ==
    /\ AppIdle /\ AdapterIdle /\ HotkeyIdle /\ PanelNew /\ DispatchIdle
    /\ TaskIdle /\ SplitIdle /\ TriggerIdle /\ DiffIdle
    /\ cf_file \in { NoFile, TomlFile(ToToml(Config_default)) }
    /\ cf_last = NoSave
    /\ cf_loaded = NotLoaded
    /\ cf_saves = 0
    /\ sd_pc = "open"
    /\ sd \in Dialogs
    /\ sd_config = Config_default
    /\ sd_ret = NoReturn

SettingsNext ==
    \/ SettingsDialog_validate
    \/ SettingsDialog_save_to_config

SettingsSpec == SettingsInit /\ [][SettingsNext]_vars

\* The dispatches step by step.  The handlers of the GTK thread (the relay
\* futures, the cancel button) run only between two dispatches; the provider
\* tasks return at any time.
DispatchNext ==
    \/ \E src \in {"paste", "hotkey"} : DispatchBegin(src)
    \/ DispatchStoreFlag
    \/ DispatchPanels
    \/ DispatchSpawn
    \/ \E d \in Sessions, i \in Apis : TaskReturn(d, i)
    \/ \E d \in Sessions : dp_pc = "idle" /\ RelayRecv(d)
    \/ \E d \in Sessions : dp_pc = "idle" /\ RelayFinalize(d)
    \/ dp_pc = "idle" /\ cancel_all_processing

DispatchSpec == RelayFairInit /\ [][DispatchNext]_vars

\* A streamed response read piece by piece: every body of one to MaxFrames
\* lines, cut by the transport at up to MaxCuts places.
SplitInit ==
    /\ AppIdle /\ AdapterIdle /\ ConfigIdle /\ HotkeyIdle /\ PanelNew
    /\ SettingsIdle /\ DispatchIdle /\ TaskIdle /\ TriggerIdle /\ DiffIdle
    /\ ss_pc = "reading"
    /\ ss_body \in FrameBodies(MaxFrames) \ { <<>> }
    /\ \E cuts \in CutSets(Len(ss_body), MaxCuts) : ss_chunks = CutAt(ss_body, cuts, 1)
    /\ ss_collected = <<>>
    /\ ss_sink = <<>>
    /\ ss_result = [ok |-> FALSE, val |-> <<>>]

SplitNext ==
    \/ SplitStreamNext
    \/ SplitStreamEnd

SplitSpec == SplitInit /\ [][SplitNext]_vars

\* The triggers with the clipboard they find, among the steps of the dispatches
\* they start.
TriggerNext ==
    \/ \E src \in {"paste", "hotkey"}, clip \in Clipboards : Trigger(src, clip)
    \/ \E d \in Sessions, i \in Apis : TaskReturn(d, i)
    \/ \E d \in Sessions : RelayRecv(d)
    \/ \E d \in Sessions : RelayFinalize(d)
    \/ cancel_all_processing

TriggerSpec == RelayFairInit /\ [][TriggerNext]_vars

\* A CachedDiff made by new from any two texts, then get_or_update calls.
DiffInit ==
    /\ AppIdle /\ AdapterIdle /\ ConfigIdle /\ HotkeyIdle /\ PanelNew
    /\ SettingsIdle /\ DispatchIdle /\ TaskIdle /\ TriggerIdle /\ SplitIdle
    /\ \E o \in DiffTexts(MaxWords), c \in DiffTexts(MaxWords) :
          cd = CachedDiff_new(o, c)
    /\ cd_ret = <<>>
    /\ cd_hist = NoDiffCall

DiffNext ==
    \E o \in DiffTexts(MaxWords), c \in DiffTexts(MaxWords) : get_or_update(o, c)

DiffSpec == DiffInit /\ [][DiffNext]_vars

\* The provider tasks with the start of the call as a step of its own: tokio
\* polls a spawned task at some later time, and the call returns after that.
TaskNext ==
    \/ PasteClicked
    \/ \E d \in Sessions, i \in Apis : TaskStart(d, i)
    \/ \E d \in Sessions, i \in Apis : Issued(d, i) /\ TaskReturn(d, i)
    \/ \E d \in Sessions : RelayRecv(d)
    \/ \E d \in Sessions : RelayFinalize(d)
    \/ \E i \in Apis : cancel_single_api(i)
    \/ cancel_all_processing

TaskSpec == RelayFairInit /\ [][TaskNext]_vars

\* The thread of setup_hotkey and the GTK main loop are scheduled: a waiting
\* receive with a message in its channel is taken.
HotkeyFairSpec ==
    HotkeySpec /\ WF_vars(HotkeyNext) /\ WF_vars(ThreadForward) /\ WF_vars(GuiRecv)

\* ------------------------------------------------------------------ claims
\* The messages of provider i waiting in the channel of dispatch d.
Queued(d, i) == { n \in 1 .. Len(chan[d]) : chan[d][n][1] = i }

\* The current session's dispatch has run finalize_processing.
CurrentDone == session_id \in Sessions /\ relay[session_id] = "done"

\* C1: whenever update_panel_result applies a result to a panel, the session
\* the result's task was spawned under is the current value of session_id.
C1_SessionAcceptance ==
    [][\A d \in Sessions : RelayRecv(d) => d = session_id]_vars

\* C2: once cancel_all_processing has returned, or the prepare of a later
\* dispatch has returned, no task spawned before that causes a panel update.
C2_NoUpdateAfterCancelOrSupersede ==
    [][\A d \in Sessions : RelayRecv(d) => (d = session_id /\ ~h_cancel_all)]_vars

\* C3: a call that returns in its own session after cancel_all_processing ran
\* in that session has run to completion, and its result is neither sent to
\* the relay nor applied to its panel.
C3_CancelAllDropsResult ==
    \A i \in Apis :
        (h_ret[i].returned /\ h_ret[i].all) =>
            /\ tasks[session_id][i].st = "done"
            /\ h_sent[i] = 0
            /\ h_applied[i] = 0
            /\ Queued(session_id, i) = {}

\* C3 witness: cancel_all ran between the dispatch and the return of a call
\* that succeeded, and the dispatch has ended with that panel still cancelled.
C3_Witness ==
    \E i \in Apis :
        /\ h_ret[i].returned /\ h_ret[i].all /\ h_ret[i].ok
        /\ CurrentDone
        /\ panels[i].view = <<"cancelled">>

\* C4: cancel_all_processing sets all four cancel flags and increases the
\* session counter.
C4_CancelAllBumpsSession ==
    [][cancel_all_processing =>
          ((\A i \in Apis : cancel_flags'[i]) /\ session_id' > session_id)]_vars

\* C5: cancel_single_api(i) sets flag i and leaves the session counter, the
\* other three flags and the other three panels unchanged.
C5_CancelSingleFrame ==
    [][\A i \in Apis :
          (clicks' # clicks /\ h_cancel_one'[i] /\ ~h_cancel_one[i]) =>
              /\ cancel_flags'[i]
              /\ session_id' = session_id
              /\ \A j \in Apis \ {i} :
                    /\ cancel_flags'[j] = cancel_flags[j]
                    /\ panels'[j] = panels[j]]_vars

\* C5 witness: one provider was cancelled while the others are still
\* processing with their flags clear.
C5_Witness ==
    \E i \in Apis :
        /\ h_cancel_one[i] /\ cancel_flags[i]
        /\ panels[i].view = <<"cancelled">>
        /\ \A j \in Apis \ {i} : ~cancel_flags[j] /\ panels[j].is_processing

\* C6: a call of provider i that returns in its session after
\* cancel_single_api(i) is neither sent nor applied, while a call that returns
\* in its session with no cancel of its provider is sent once and is applied
\* once by the time the dispatch ends.
C6_CancelSingleStopsOnlyThatProvider ==
    /\ \A i \in Apis :
          (h_ret[i].returned /\ h_ret[i].one) =>
              (h_sent[i] = 0 /\ h_applied[i] = 0 /\ Queued(session_id, i) = {})
    /\ \A j \in Apis :
          (h_ret[j].returned /\ ~h_ret[j].one /\ ~h_ret[j].all) =>
              /\ h_sent[j] = 1
              /\ h_applied[j] = 1 \/ Queued(session_id, j) # {}

\* C6 witness: provider i was cancelled before its call returned, every other
\* provider returned uncancelled and was applied, and the dispatch has ended.
C6_Witness ==
    \E i \in Apis :
        /\ h_ret[i].returned /\ h_ret[i].one /\ h_applied[i] = 0
        /\ \A j \in Apis \ {i} :
              h_ret[j].returned /\ ~h_ret[j].one /\ ~h_ret[j].all /\ h_applied[j] = 1
        /\ CurrentDone

\* A panel in a terminal state: completed, in error, or marked cancelled.
Terminal(panel) ==
    panel.is_completed \/ panel.has_error \/ panel.view = <<"cancelled">>

\* C7: within one session, a panel that is completed, in error or marked
\* cancelled is not changed by a later update_panel_result of that session.
C7_TerminalAbsorbing ==
    [][\A i \in Apis :
          (/\ session_id \in Sessions
           /\ Terminal(panels[i])
           /\ RelayRecv(session_id)) => panels'[i] = panels[i]]_vars

\* C8: every dispatch whose four calls return ends its relay loop and runs
\* finalize_processing, and does so once: a finalized dispatch stays finalized.
\* "A running dispatch is eventually done" is written as: no dispatch stays
\* running for ever, and a running dispatch is next running or done.
C8_EveryDispatchFinalizes ==
    /\ \A d \in Sessions : []<>(relay[d] # "running")
    /\ [][\A d \in Sessions :
            relay[d] = "running" => relay'[d] \in {"running", "done"}]_vars
    /\ [][\A d \in Sessions : relay[d] = "done" => relay'[d] = "done"]_vars

\* C8 witness: a dispatch in which all four providers returned errors has
\* run finalize_processing.
C8_Witness ==
    /\ CurrentDone
    /\ status_label = "all_errors"
    /\ \A i \in Apis : panels[i].has_error /\ h_applied[i] = 1

\* C9: a channel holds at most one result of each provider, sent by a task
\* that has ended, and none when its dispatch has ended; in the current
\* session each task sends at most one result, a result is applied only after
\* it was sent and at most once, and a provider that was not cancelled when
\* its call returned has exactly one update when the dispatch ends.
C9_ExactlyOneTerminal ==
    \A i \in Apis :
        /\ \A d \in Sessions :
              /\ Cardinality(Queued(d, i)) <= 1
              /\ Queued(d, i) # {} => tasks[d][i].st = "done"
              /\ relay[d] = "done" => Queued(d, i) = {}
        /\ h_sent[i] <= 1
        /\ h_applied[i] <= h_sent[i]
        /\ session_id \in Sessions =>
              Cardinality(Queued(session_id, i)) = h_sent[i] - h_applied[i]
        /\ CurrentDone => h_applied[i] = h_sent[i]
        /\ (CurrentDone /\ h_ret[i].returned /\ ~h_ret[i].one /\ ~h_ret[i].all) =>
              h_applied[i] = 1

\* C9 witness: a dispatch ended in which every provider sent one result and
\* had it applied once.
C9_Witness ==
    /\ CurrentDone
    /\ \A i \in Apis : h_sent[i] = 1 /\ h_applied[i] = 1

\* Provider k is the only one whose task of the current session has a key.
OnlyKey(k) ==
    \A j \in Apis : (tasks[session_id][j].api_key # "") <=> (j = k)

\* C10: a dispatch that ran alone and uncancelled, in which three providers
\* have an empty key and the call of the fourth succeeded, ends with that one
\* panel completed and the three others in error with the Response error of
\* the empty key.
C10_OneSuccessThreeResponseErrors ==
    \A k \in Apis :
        (CurrentDone /\ h_quiet /\ OnlyKey(k) /\ h_ret[k].ok) =>
            /\ panels[k].is_completed /\ ~panels[k].has_error
            /\ panels[k].view = <<"diff", "corrected">>
            /\ completed_count = 1
            /\ \A j \in Apis \ {k} :
                  /\ panels[j].has_error /\ ~panels[j].is_completed
                  /\ panels[j].view =
                        <<"error", "Response error: ", "API key is empty">>

\* C10 witness: such a dispatch has ended, the valid provider being the last
\* of the API_NAMES.
C10_Witness ==
    /\ CurrentDone /\ h_quiet
    /\ OnlyKey(NumApis - 1) /\ h_ret[NumApis - 1].ok

\* C11: a result sent by a task whose flag was clear when its call returned is
\* eventually taken from the channel by the relay, which applies it to the
\* provider's panel, whether or not the other calls of the dispatch return.
\* "A queued result is eventually taken", (Queued # {}) ~> (Queued = {}), is
\* written in its equivalent form: the provider's queue is empty again and
\* again.
C11_SlowProviderDoesNotBlock ==
    /\ [][\A d \in Sessions, i \in Apis :
            (TaskReturn(d, i) /\ ~cancel_flags[i]) => Queued(d, i)' # {}]_vars
    /\ \A d \in Sessions, i \in Apis : []<>(Queued(d, i) = {})
    /\ [][\A d \in Sessions, i \in Apis :
            (Queued(d, i) # {} /\ Queued(d, i)' = {}) =>
                /\ Head(chan[d])[1] = i
                /\ panels'[i] = UpdatePanel(panels[i], Head(chan[d])[2], d)]_vars

\* C11 witness: the result of one provider was applied while the call of
\* another provider of the same dispatch has not returned.
C11_Witness ==
    /\ session_id \in Sessions
    /\ \E i, j \in Apis :
          /\ h_ret[i].returned /\ h_sent[i] = 1 /\ h_applied[i] = 1
          /\ tasks[session_id][j].st = "calling"

\* C12: session_id never decreases; every dispatch (a prepare followed by the
\* spawn of its tasks) sets it to its previous value plus one and runs under
\* that new id, which no earlier dispatch has; so every dispatch other than
\* the latest has an id smaller than session_id.
C12_SessionMonotonic ==
    /\ [][session_id' >= session_id]_vars
    /\ [][(PasteClicked \/ HotkeyTriggered) =>
            /\ session_id' = session_id + 1
            /\ relay[session_id'] = "none"
            /\ relay'[session_id'] = "running"
            /\ \A d \in Sessions : relay[d] # "none" => d < session_id']_vars
    /\ [][\A d \in Sessions :
            (relay'[d] # "none" /\ d # session_id') => d < session_id']_vars

\* C12 witness: a second dispatch has started while a task of the first is
\* still in its call.
C12_Witness ==
    /\ session_id = 2
    /\ relay[1] = "running" /\ relay[2] = "running"
    /\ \E i \in Apis : tasks[1][i].st = "calling"

\* The state cancel_all_processing leaves: every flag set, no panel processing
\* or cancellable, the status line showing the cancellation.
CancelledAll ==
    /\ \A i \in Apis : cancel_flags[i]
    /\ \A i \in Apis : ~panels[i].is_processing /\ ~panels[i].cancel_sensitive
    /\ status_label = "cancelled"

\* A step of cancel_all_processing (no other step leaves its history flag set
\* and the tasks, the channels and the relays as they were).
CancelAllStep ==
    /\ h_cancel_all' /\ h_cancel_one' = h_cancel_one
    /\ chan' = chan /\ relay' = relay /\ tasks' = tasks
    /\ cancel_all_processing

\* C13: every cancel_all_processing leaves all four flags set, and a call made
\* in the state a previous call left changes nothing; a call made while no
\* dispatch is running changes nothing the next dispatch depends on, and every
\* dispatch starts with all four flags clear and its panels reset.
C13_CancelAllIdempotent ==
    /\ [][CancelAllStep => CancelledAll']_vars
    /\ [][(CancelAllStep /\ CancelledAll) => UNCHANGED progVars]_vars
    /\ [][(CancelAllStep /\ Running = {}) =>
            /\ PrepareFlags(cancel_flags') = PrepareFlags(cancel_flags)
            /\ \A i \in Apis : PreparePanel(panels'[i]) = PreparePanel(panels[i])
            /\ UNCHANGED <<session_id, config, tasks, chan, relay, hotkey_wait>>]_vars
    /\ [][(session_id' # session_id) =>
            /\ \A i \in Apis : ~cancel_flags'[i]
            /\ \A i \in Apis : panels'[i] = PreparePanel(InitPanel)
            /\ completed_count' = 0
            /\ status_label' = "sending"]_vars

\* C13 witness: cancel_all_processing ran before the first dispatch, which
\* then started with clear flags and ended with a completed panel.
C13_Witness ==
    /\ session_id = 1 /\ clicks = 1
    /\ ~h_cancel_all /\ \A i \in Apis : ~h_cancel_one[i]
    /\ \A i \in Apis : ~cancel_flags[i]
    /\ CurrentDone /\ completed_count > 0

C15_EagerValidation ==
    LET expected ==
            IF ad_req.api_key = "" THEN "API key is empty"
            ELSE IF ad_req.model = "" THEN "Model is empty"
            ELSE "Text to correct is empty"
        invalid == ad_req.api_key = "" \/ ad_req.model = "" \/ ad_req.text = ""
    IN /\ (ad_pc \notin {"idle", "start"} /\ invalid) =>
              /\ ad_pc = "returned" /\ ad_exit = "validation"
              /\ ad_http = 0
              /\ ad_result = Err(ApiError("Response", expected))
       /\ ad_exit = "validation" => invalid
       /\ ad_http > 0 => ~invalid

\* C15 witness: the DeepSeek adapter, called with a key but with an empty
\* model and an empty text, has returned the error of the model.
C15_Witness ==
    /\ ad_pc = "returned" /\ ad_req.provider = 3
    /\ ad_req.api_key # "" /\ ad_req.model = "" /\ ad_req.text = ""
    /\ ad_result = Err(ApiError("Response", "Model is empty"))

C17_DoneEndsStream ==
    [][ad_done => (ad_collected' = ad_collected /\ ad_sink' = ad_sink)]_vars

\* C18: a streaming call whose stream ends with an empty accumulator returns
\* Err(ApiError::Response("No content in streaming response")); a frame that
\* gives no fragment is skipped: the loop goes on to the next line with the
\* accumulator, the sink and the result as they were.
C18_EmptyStreamIsError ==
    /\ []((ad_exit = "stream_end" /\ ad_collected = <<>>) =>
              ad_result = Err(ApiError("Response", "No content in streaming response")))
    /\ []((ad_exit = "stream_end" /\ ad_result.ok) => ad_collected # <<>>)
    /\ [][(ad_pc = "lines" /\ ad_buffer # <<>> /\ Head(ad_buffer).kind = "skip") =>
              /\ ad_pc' = "lines"
              /\ ad_buffer' = Tail(ad_buffer)
              /\ ad_collected' = ad_collected
              /\ ad_sink' = ad_sink
              /\ ad_result' = ad_result]_vars

\* C18 witness: a stream in which every chunk was read and a frame was
\* skipped ended with nothing accumulated, and the call returned the error.
C18_Witness ==
    /\ ad_exit = "stream_end" /\ ad_skipped /\ ad_read = MaxChunks
    /\ ad_collected = <<>>
    /\ ~ad_result.ok

\* C19: in batch mode an adapter that reads a 2xx response with a first text
\* block returns that text with leading and trailing whitespace removed.
C19_BatchReturnsTrimmedFirstBlock ==
    (ad_exit = "batch" /\ ad_body.parsed /\ ad_body.present /\ Trim(ad_body.text) # <<>>) =>
        ad_result = Ok(Trim(ad_body.text))

\* C20: in batch mode a 2xx response whose first text block is missing or is
\* the empty string yields Err(ApiError::Response).
C20_BatchEmptyContentIsError ==
    (ad_exit = "batch" /\ ad_body.parsed /\ (~ad_body.present \/ ad_body.text = <<>>)) =>
        (~ad_result.ok /\ ad_result.val[1] = "Response")

\* The variant the three-way rule gives a failure: Timeout for an expired
\* timeout, Connection for a failure to establish the connection, Response
\* for any other transport failure and for a status outside 2xx.
RuleVariant(fault) ==
    IF fault.is_timeout THEN "Timeout"
    ELSE IF fault.phase = "connect" THEN "Connection"
    ELSE "Response"

\* C21: a call that has met a failure in any of its phases (connect, request
\* send, status, response-body read) returns the error variant of the
\* three-way rule, in all four adapters.
C21_ThreeWayClassification ==
    (ad_pc = "returned" /\ ad_fault # NoFault) =>
        /\ ~ad_result.ok
        /\ ad_result.val[1] = RuleVariant(ad_fault)

\* C22: the number of seconds named in a Timeout error is the request timeout
\* of the client that made the call.
C22_TimeoutNamesClientTimeout ==
    (ad_pc = "returned" /\ ~ad_result.ok /\ ad_result.val[1] = "Timeout") =>
        SecondsNamed(ad_result.val[2]) =
            ClientOf(ad_req.provider, ad_req.streaming).timeout

\* Configurations with empty API keys: the default, and one OpenAI key only.
EmptyKeyConfigs ==
    { Config_default, [Config_default EXCEPT !.api_keys.openai = <<"a">>] }

C24_ConfigRoundTrip ==
    [][(Config_load /\ cf_last.some) => cf_loaded' = ConfigOk(cf_last.val)]_vars

\* C24 witness: after two saves, the second of a value whose key holds a quote
\* and a backslash, the load has returned that value.
C24_Witness ==
    /\ cf_saves = 2 /\ cf_last.some
    /\ cf_last.val.api_keys.openai = <<"\"", "\\">>
    /\ cf_loaded = ConfigOk(cf_last.val)

\* C25: every press of the registered hotkey eventually leads to a run of
\* handle_hotkey_triggered by the loop of setup_hotkey.
C25_PressReachesDispatch ==
    \A n \in 1 .. MaxEvents : (hk_pressed >= n) ~> (hk_handled >= n)

\* Nothing is ever sent on the manager's channel, so nothing reaches the loop
\* of setup_hotkey.
HotkeyChannelsEmpty == hk_tx = <<>> /\ hk_async = <<>> /\ hk_handled = 0

\* C26: HotkeyManager::new returns Ok exactly when the primary registration
\* succeeded or, it having failed, the fallback registration succeeded; on Ok
\* one hotkey is registered and active_combo is Primary if the primary
\* registration succeeded, Fallback otherwise; on Err no hotkey is registered
\* and active_combo is None.
C26_RegisterWithFallback ==
    hk_ret # "none" =>
        /\ hk_ret = "Ok" <=>
              \/ hk_tried.primary = "ok"
              \/ hk_tried.primary = "failed" /\ hk_tried.fallback = "ok"
        /\ hk_ret = "Ok" =>
              /\ Cardinality(hk_os) = 1
              /\ hk_mgr.active_combo =
                    IF hk_tried.primary = "ok" THEN "Primary" ELSE "Fallback"
              /\ hk_os = {hk_mgr.registered_hotkey}
        /\ hk_ret = "Err" =>
              /\ hk_os = {}
              /\ hk_mgr.active_combo = "None"

\* C26 witness: the primary registration failed, the fallback one succeeded,
\* and new has returned Ok with the fallback active.
C26_Witness ==
    /\ hk_ret = "Ok"
    /\ hk_tried.primary = "failed" /\ hk_tried.fallback = "ok"
    /\ hk_mgr.active_combo = "Fallback"

\* C27: when update_and_render has drained the channel, the panel's text is
\* the text before the drain followed by the chunks that had been sent and
\* not yet received, in send order, and the channel is empty: no chunk is
\* lost, doubled or out of order, also when the sender has been dropped.
C27_PanelAccumulates ==
    [][(sp_pc = "draining" /\ sp_pc' = "idle") =>
          /\ sp_text' = sp_before \o Concat(SubSeq(sp_sent, sp_mark + 1, Len(sp_sent)))
          /\ sp_chan' = <<>>]_vars

\* C27 witness: a drain has ended that took two chunks sent before the sender
\* was dropped, on top of a text that was not empty.
C27_Witness ==
    /\ sp_pc = "idle" /\ ~sp_tx
    /\ sp_before # <<>> /\ sp_mark = 1 /\ Len(sp_sent) = 3
    /\ sp_text = sp_before \o sp_sent[2] \o sp_sent[3]

\* The key and model fields of a dialog in the order OpenAI, Anthropic, Gemini,
\* DeepSeek keys, then the models in the same order.
FieldsInOrder(dialog) ==
    << dialog.temp_openai_key, dialog.temp_anthropic_key,
       dialog.temp_gemini_key, dialog.temp_deepseek_key,
       dialog.temp_openai_model, dialog.temp_anthropic_model,
       dialog.temp_gemini_model, dialog.temp_deepseek_model >>

\* The message that names each of these fields.
FieldMessages ==
    << "OpenAI API key cannot be empty", "Anthropic API key cannot be empty",
       "Gemini API key cannot be empty", "DeepSeek API key cannot be empty",
       "OpenAI model cannot be empty", "Anthropic model cannot be empty",
       "Gemini model cannot be empty", "DeepSeek model cannot be empty" >>

\* The fields of a dialog that are empty once whitespace is trimmed.
BlankFields(dialog) ==
    { n \in 1 .. 8 : Trim(FieldsInOrder(dialog)[n]) = <<>> }

\* C28: validate returns Err exactly when a key or a model is empty after
\* trimming, and the error names the first such field in the fixed order.
C28_ValidateNamesFirstBlankField ==
    sd_pc = "validated" =>
        /\ sd_ret.ok <=> BlankFields(sd) = {}
        /\ ~sd_ret.ok =>
              \E n \in BlankFields(sd) :
                  /\ \A m \in BlankFields(sd) : n <= m
                  /\ sd_ret.msg = FieldMessages[n]

\* C28 witness: validate has returned the error of the Anthropic model for a
\* dialog whose keys are filled in and whose Anthropic and DeepSeek models are
\* blank, the first of them being whitespace only.
C28_Witness ==
    /\ sd_pc = "validated"
    /\ BlankFields(sd) = {6, 8}
    /\ sd.temp_anthropic_model = <<" ">>
    /\ sd_ret = UnitErr("Anthropic model cannot be empty")

\* C29: save_to_config on a dialog that does not validate returns Err and
\* leaves the Config and the file as they were; when it returns Ok the Config
\* holds the trimmed keys and models of the dialog and the file holds that
\* Config.
C29_SaveToConfigAllOrNothing ==
    [][(sd_pc # "saved" /\ sd_pc' = "saved") =>
          /\ BlankFields(sd) # {} =>
                /\ ~sd_ret'.ok
                /\ sd_config' = sd_config
                /\ cf_file' = cf_file
          /\ sd_ret'.ok =>
                /\ \A n \in 1 .. 8 :
                      FieldsInOrder([ temp_openai_key      |-> sd_config'.api_keys.openai,
                                      temp_anthropic_key   |-> sd_config'.api_keys.anthropic,
                                      temp_gemini_key      |-> sd_config'.api_keys.gemini,
                                      temp_deepseek_key    |-> sd_config'.api_keys.deepseek,
                                      temp_openai_model    |-> sd_config'.models.openai,
                                      temp_anthropic_model |-> sd_config'.models.anthropic,
                                      temp_gemini_model    |-> sd_config'.models.gemini,
                                      temp_deepseek_model  |-> sd_config'.models.deepseek ])[n]
                          = Trim(FieldsInOrder(sd)[n])
                /\ LoadResult(cf_file') = ConfigOk(sd_config')]_vars

\* C29 witness: save_to_config has returned the validation error of a blank
\* Gemini key; the Config is the one passed in and there is still no file.
C29_Witness ==
    /\ sd_pc = "saved"
    /\ sd_ret = UnitErr("Gemini API key cannot be empty")
    /\ sd.temp_gemini_key = <<" ">>
    /\ sd_config = Config_default
    /\ cf_file = NoFile

\* The steps of one dispatch in the order of the claim: the increment, the
\* four flags, the four tasks.
DispatchOrder ==
    <<"fetch_add">> \o [k \in 1 .. NumApis |-> "store"]
                    \o [k \in 1 .. NumApis |-> "spawn"]

\* The loop index of each of these steps.
DispatchIndex ==
    <<0>> \o [k \in 1 .. NumApis |-> k - 1] \o [k \in 1 .. NumApis |-> k - 1]

\* C30: in every dispatch the session counter is advanced once, then the four
\* cancel flags are stored false, then the four provider tasks are spawned, one
\* per index; every task is spawned with all four flags false, and a task of
\* the dispatch has loaded its flag only after the four stores and its spawn.
C30_DispatchOrdering ==
    dp_log # <<>> =>
        /\ Len(dp_log) <= Len(DispatchOrder)
        /\ \A k \in 1 .. Len(dp_log) :
              /\ dp_log[k].ev = DispatchOrder[k]
              /\ dp_log[k].i = DispatchIndex[k]
              /\ dp_log[k].session = dp_log[1].session
              /\ dp_log[k].ev = "spawn" =>
                    \A j \in Apis : dp_log[k].flags[j] = FALSE
        /\ session_id = dp_log[1].session
        /\ dp_pc = "idle" => Len(dp_log) = Len(DispatchOrder)
        /\ \A j \in Apis :
              /\ tasks[session_id][j].st # "none" <=>
                    \E k \in 1 .. Len(dp_log) :
                        dp_log[k].ev = "spawn" /\ dp_log[k].i = j
              /\ h_ret[j].returned =>
                    /\ Len(dp_log) > NumApis + 1
                    /\ tasks[session_id][j].st = "done"

\* C30 witness: the second dispatch is complete; it began with all four flags
\* set by cancel_all_processing, and its task 0 has loaded its flag.
C30_Witness ==
    /\ dp_pc = "idle"
    /\ session_id = 2
    /\ Len(dp_log) = Len(DispatchOrder)
    /\ \A j \in Apis : dp_log[1].flags[j]
    /\ h_ret[0].returned

\* C31: a provider task whose cancel flag is set, or whose session is no longer
\* the current one, at the moment it begins its call sends no request and
\* sends no result to the relay.
C31_NoCallWhenCancelledOrStale ==
    \A d \in Sessions, i \in Apis :
        (Issued(d, i) /\ (h_issue[<<d, i>>].cancelled \/ h_issue[<<d, i>>].stale)) =>
            /\ ~h_issue[<<d, i>>].request
            /\ tasks[d][i].requests = 0
            /\ Queued(d, i) = {}

\* C32: when the call of a provider task returns, the task sends its result to
\* the relay only if at that moment its cancel flag is clear and its session is
\* the current one; otherwise nothing is sent.
C32_ForwardOnlyIfCurrentAndUncancelled ==
    [][\A d \in Sessions, i \in Apis :
          (tasks[d][i].st = "calling" /\ tasks'[d][i].st = "done") =>
              (chan'[d] # chan[d] => (~cancel_flags[i] /\ d = session_id))]_vars

\* C33: for a given response body, the accumulated text, the fragments passed
\* to the chunk sink and the result are those of the body delivered in one
\* piece, however the transport cuts the body into pieces.
C33_ChunkingIndependent ==
    ss_pc = "returned" =>
        LET texts == LineFragments(StrLines(ss_body))
        IN /\ ss_collected = texts
           /\ ss_sink = [k \in 1 .. Len(texts) |-> <<texts[k]>>]
           /\ ss_result = [ok |-> TRUE, val |-> Trim(texts)]

\* C34: completed_count is the number of panels whose is_completed is true,
\* and so it is never more than the number of panels.
C34_CountMatchesCompletedPanels ==
    /\ completed_count = Cardinality({ i \in Apis : panels[i].is_completed })
    /\ completed_count <= NumApis

\* C35: once cancel_all_processing has set the cancelled status, the status
\* line changes only when the next dispatch starts; the finalize_processing of
\* the cancelled dispatch leaves it.
C35_CancelledStatusStays ==
    [][(status_label = "cancelled" /\ status_label' # "cancelled") =>
          session_id' # session_id]_vars

\* C36: a trigger that finds the clipboard unreadable or its text empty starts
\* no session: the session counter, the cancel flags, the panels and
\* completed_count stay as they are and no provider task is spawned.
C36_NoTextStartsNoSession ==
    [][(h_trigger' # h_trigger /\ ~(h_trigger'.last.ok /\ h_trigger'.last.text # "")) =>
          /\ UNCHANGED <<session_id, cancel_flags, panels, completed_count>>
          /\ UNCHANGED <<tasks, chan, relay>>]_vars

\* C36 witness: the paste button was clicked with an empty clipboard while the
\* first dispatch was cancelled with a completed panel; the flags are still
\* set and the panel is still completed.
C36_Witness ==
    /\ h_trigger.idle = 1
    /\ h_trigger.last = ClipOk("")
    /\ status_label = "no_text"
    /\ session_id = 1
    /\ \A i \in Apis : cancel_flags[i]
    /\ completed_count = 1
    /\ panels[0].is_completed

\* C37: the hotkey loop starts a dispatch only when the dispatch of its
\* previous event has run finalize_processing, and it is released by nothing
\* else; while it waits, only a paste click starts a dispatch.
C37_HotkeyDispatchesDoNotOverlap ==
    [][/\ (hotkey_wait' # hotkey_wait /\ hotkey_wait' # 0) =>
              /\ hotkey_wait = 0
              /\ hotkey_wait' = session_id'
              /\ session_id' = session_id + 1
       /\ (hotkey_wait # 0 /\ hotkey_wait' # hotkey_wait) =>
              /\ hotkey_wait' = 0
              /\ relay[hotkey_wait] = "running"
              /\ relay'[hotkey_wait] = "done"
       /\ (hotkey_wait # 0 /\ session_id' # session_id) =>
              hotkey_wait' = hotkey_wait]_vars

\* C37 witness: the dispatch of a hotkey event is still running, and a paste
\* click has started a second dispatch beside it.
C37_Witness ==
    /\ hotkey_wait = 1
    /\ session_id = 2
    /\ relay[1] = "running"
    /\ relay[2] = "running"

\* C38: when save_to_config returns Err because the file could not be written,
\* the Config passed in has the value it had before the call.
C38_FailedWriteKeepsConfig ==
    [][(/\ sd_pc # "saved"
        /\ sd_pc' = "saved"
        /\ sd_ret' = UnitErr("Failed to save config")) =>
          sd_config' = sd_config]_vars

\* C39: the cached changes are compute_diff of the stored texts; get_or_update
\* returns compute_diff of its arguments and leaves them stored, and it
\* recomputes exactly when an argument differs from the stored pair.
C39_CachedDiffCoherent ==
    /\ cd.changes = compute_diff(cd.original, cd.corrected)
    /\ cd_hist.calls > 0 =>
          /\ cd_ret = compute_diff(cd_hist.original, cd_hist.corrected)
          /\ cd.original = cd_hist.original
          /\ cd.corrected = cd_hist.corrected
          /\ cd_hist.recomputed <=>
                (cd_hist.original # cd_hist.stored_original
                    \/ cd_hist.corrected # cd_hist.stored_corrected)

\* C39 witness: the second call, made with the stored original and another
\* corrected text, has recomputed, and its changes hold a deletion and an
\* insertion.
C39_Witness ==
    /\ cd_hist.calls = 2
    /\ cd_hist.recomputed
    /\ cd_hist.original = cd_hist.stored_original
    /\ cd_hist.corrected # cd_hist.stored_corrected
    /\ \E k \in 1 .. Len(cd_ret) : cd_ret[k].tag = "Delete"
    /\ \E k \in 1 .. Len(cd_ret) : cd_ret[k].tag = "Insert"

====
